---------------------------- MODULE Spec2Model ----------------------------
(***************************************************************************)
(* State-machine model of the interrupt-driven timing subsystem of the     *)
(* grblHAL TM4C123 driver (src/drivers/TM4C123/driver.c): step pulse       *)
(* generation, spindle PWM ramping, software debounce of the limit inputs  *)
(* and the 1 ms tick handler.                                              *)
(*                                                                         *)
(* Signal sets (axes_signals_t) are 3-bit integers, bit0 = X, bit1 = Y,    *)
(* bit2 = Z.  Ports are modelled in the same bit order.                    *)
(***************************************************************************)
EXTENDS Integers, Sequences, FiniteSets, TLC

\* ------------------------------------------------------------------ bounds

\* largest settings.steppers.pulse_microseconds the model draws
MaxPulse == 3
\* largest settings.steppers.pulse_delay_microseconds the model draws
MaxDelay == 2
\* spindle_pwm.period, spindle_pwm.min_value and spindle_pwm.max_value as precomputed
\* from the settings
PwmPeriod == 100
PwmMin == 3
PwmMax == 45
\* microseconds of debounce time per model time step
TickUs == 8000
\* longest delay requested, in ticks
MaxMs == 2
\* width in bits the uint32_t delay countdown is modelled with
DelayBits == 3

\* ------------------------------------------------------- program constants

SPINDLE_RAMP_STEP_INCR == 20
SPINDLE_RAMP_STEP_TIME == 2
\* load value of DEBOUNCE_TIMER, counts of 1 us
DEBOUNCE_LOAD == 32000

\* ------------------------------------------------------------- bit helpers

AxisBits == {0, 1, 2}
AxesValues == 0..7

Pow2(i) == IF i = 0 THEN 1 ELSE IF i = 1 THEN 2 ELSE 4

Bit(v, i) == (v \div Pow2(i)) % 2

\* the C operator ^ on 3-bit signal sets
Xor(a, b) ==
    ((Bit(a, 0) + Bit(b, 0)) % 2)
  + ((Bit(a, 1) + Bit(b, 1)) % 2) * 2
  + ((Bit(a, 2) + Bit(b, 2)) % 2) * 4

Min(a, b) == IF a < b THEN a ELSE b

\* --------------------------------------------------------------- variables

VARIABLES
    \* settings snapshot used by the pulse generator
    pulse_microseconds, pulse_delay_microseconds, step_invert, dir_invert,
    \* stepper_t fields owned by the upstream executor
    stepper,
    \* GPIO output ports
    step_port, dir_port,
    \* buffered step pattern of the delayed variant
    next_step_outbits,
    \* PULSE_TIMER: en, count, load, match, imask (enabled sources), ris (raw flags)
    pulse_timer,
    \* handler registered for PULSE_TIMER and hal.stepper_pulse_start
    pulse_handler, pulse_start,
    \* STEPPER_TIMER is enabled
    stepper_timer_en,
    \* observation of the pulse generator
    pev,            \* last pulse-generator event
    cmd_nb,         \* new_block as seen on entry by the last start_pulse
    cmd_armed,      \* the last start_pulse called TimerEnable
    dir_written,    \* the last start_pulse called set_dir_outputs
    since_cmd,      \* timer counts since the last start_pulse (saturating)
    spaced_ok,      \* every command so far came more than width + delay after its predecessor
    edge_balance,   \* rising minus falling edges of the step outputs (2 = overlap, absorbing)
    width,          \* counts the step outputs have been asserted for
    last_width,     \* asserted interval of the last completed pulse (0 = none yet)
    idle_cleared,   \* stepperGoIdle(true) has run and no start_pulse since
    \* build and settings snapshot of the spindle
    PWM_RAMPED, off_value, always_on, disable_with_zero_speed, spindle_invert,
    \* driver_setup has run its final hal.spindle_set_state call
    spindle_ready,
    \* pwm_ramp: ms_cfg, ms_delay, pwm_current, pwm_target, pwm_step
    pwm_ramp,
    pwmEnabled,
    \* SPINDLE_ENABLE_PIN and SPINDLE_DIRECTION_PIN levels
    spindle_enable_pin, spindle_direction_pin,
    \* SPINDLE_PWM_TIMER: en, match, load, level
    pwm_timer,
    \* SysTick counter enabled
    systick_en,
    \* delay: ms, callback
    delay,
    \* observation of the ramp
    sev,            \* last spindle event
    ramp_c0,        \* pwm_current when the last set_speed returned
    ramp_steps,     \* ramp steps taken since the last set_speed
    since_step,     \* ticks since the last ramp step or set_speed
    off_run,        \* consecutive settled set_speed(off_value) calls (0, 1, 2)
    off_snap,       \* <<hardware and driver state>> once the first of them had settled, else <<>>
    \* hal.driver_cap.software_debounce and the handler registered for the limit port
    software_debounce, limit_handler,
    \* settings.limits.invert and settings.limits.disable_pullup
    limits_invert, limits_disable_pullup,
    \* probe_invert is non-zero; probeState
    probe_invert, probeState,
    \* levels of the limit pins and of the probe pin
    limit_pins, probe_pin,
    \* pending interrupt flags of the limit port
    gpio_ris,
    \* DEBOUNCE_TIMER: en, count, load, ris (timeout flag)
    debounce_timer,
    \* observation of the limit inputs
    lev,            \* last limit-input event
    notified,       \* the last event called hal.limit_interrupt_callback
    notified_state, \* the state it passed (0 when it made no call)
    burst_active,   \* a debounce window is open
    since_first,    \* time steps since the first edge of the burst (saturating)
    burst_ok,       \* every edge of the burst came less than the window after the first
    burst_edges,    \* raw limit edges of the burst (saturating at 3)
    burst_pins,     \* limit pins that raised an edge in the burst
    burst_notes,    \* upstream notifications of the burst (saturating at 2)
    \* settings.control_invert and settings.control_disable_pullup
    control_invert, control_disable_pullup,
    \* levels of the control pins and pending interrupt flags of the control port
    control_pins, control_ris,
    \* observation of the control inputs and of probe queries
    control_state,  \* <<state>> the last event passed to hal.control_interrupt_callback, else <<>>
    probe_result,   \* <<value>> the last probeGetState call returned, <<>> before the first
    \* position of the main context inside driver_delay_ms ("idle" outside it)
    main_pc,
    \* observation of the delay requests
    req,            \* arguments of the current (else the last) driver_delay_ms call
    entry,          \* delay.callback as read on entry of that call
    req_ticks,      \* ticks since that call began (saturating)
    req_calls,      \* callbacks invoked since then: <<callback, context, req_ticks>>
    raced,          \* systick_isr has run between the statements of a driver_delay_ms call
    \* interrupt controller: interrupts pending, and handlers entered and not yet left
    \* (the last one is running, the others are preempted)
    nvic_pending, nvic_active,
    \* the build has LASER_PPI
    LASER_PPI,
    \* laser: next_pulse, steps_per_pulse; the static current_pwm of stepperPulseStartPPI
    laser, current_pwm,
    \* LASER_PPI_TIMER: en, count, ris (timeout flag)
    ppi_timer,
    \* observation of the laser pulses
    ppi_steps,      \* step pulses since the last laser pulse was started (saturating), -1 before the first
    ppi_gap,        \* step pulses between the starts of the last two laser pulses (0 = fewer than two)
    \* pwm_value of the spindle_set_speed call the main context is inside of
    set_speed_arg,
    \* IOInitDone
    IOInitDone,
    \* the build has KEYPAD_ENABLE, TRINAMIC_ENABLE
    KEYPAD_ENABLE, TRINAMIC_ENABLE,
    \* driver_settings in RAM and the copy in the driver area of the EEPROM
    driver_settings, eeprom_driver_area,
    \* observation of driver_setting
    setting_status,   \* <<status>> the last call returned, <<>> before the first
    handler_results,  \* <<keypad, trinamic>> results of that call ("none" = not consulted)
    \* the word the atomic helpers work on, as a set of bit numbers; PRIMASK is set
    word, primask,
    \* position of the main context inside an atomic helper, its arguments and its locals
    atomic_pc, atomic_op, atomic_tmp,
    \* observation of the atomic helpers
    atomic_ret,     \* <<value>> the last helper returned, <<>> for none
    shadow,         \* the word as indivisible updates in the order of their stores leave it
    before,         \* the word just before the last helper's store
    \* observation of the spindle state functions
    state_req,      \* <<state>> the last spindleSetState call was given, <<>> before the first
    state_ret,      \* <<state>> the last spindleGetState call returned, <<>> before the first
    \* position of the tick handler when it is taken statement by statement ("idle"
    \* outside it), and the result of its test pwm_current == pwm_target
    tick_pc, tick_eq,
    \* lookup-table output mode: the pin numbers of the X, Y, Z step and direction
    \* outputs within their ports, and the tables step_outmap, dir_outmap (pin sets)
    step_pins, dir_pins, step_outmap, dir_outmap,
    \* observation of the lookup tables
    map_ev,         \* "init", "settings_changed", "step" or "dir": the last of these events
    map_write       \* <<outbits, pins>> of the last table-mode port write, <<>> before the first

pulseVars == <<pulse_microseconds, pulse_delay_microseconds, step_invert, dir_invert,
               stepper, step_port, dir_port, next_step_outbits, pulse_timer,
               pulse_handler, pulse_start, pev, cmd_nb, cmd_armed, dir_written,
               since_cmd, spaced_ok, edge_balance, width, last_width,
               stepper_timer_en, idle_cleared>>

spindleVars == <<PWM_RAMPED, off_value, always_on, disable_with_zero_speed,
                 spindle_invert, spindle_ready, pwm_ramp, pwmEnabled,
                 spindle_enable_pin, spindle_direction_pin, pwm_timer, systick_en,
                 delay, sev, ramp_c0, ramp_steps, since_step, off_run, off_snap>>

inputVars == <<software_debounce, limit_handler, limits_invert, limits_disable_pullup,
               probe_invert, probeState, limit_pins, probe_pin, gpio_ris, debounce_timer,
               lev, notified, notified_state, burst_active, since_first, burst_ok,
               burst_edges, burst_pins, burst_notes>>

dispatchVars == <<control_invert, control_disable_pullup, control_pins, control_ris,
                  control_state, probe_result>>

delayVars == <<main_pc, req, entry, req_ticks, req_calls, raced>>

nvicVars == <<nvic_pending, nvic_active>>

ppiVars == <<LASER_PPI, laser, current_pwm, ppi_timer, ppi_steps, ppi_gap>>

setupVars == <<IOInitDone, set_speed_arg>>

settingVars == <<KEYPAD_ENABLE, TRINAMIC_ENABLE, driver_settings, eeprom_driver_area,
                 setting_status, handler_results>>

atomicVars == <<word, primask, atomic_pc, atomic_op, atomic_tmp, atomic_ret, shadow, before>>

queryVars == <<state_req, state_ret>>

tickVars == <<tick_pc, tick_eq>>

outmapVars == <<step_pins, dir_pins, step_outmap, dir_outmap, map_ev, map_write>>

otherVars == <<ppiVars, setupVars, settingVars, atomicVars, queryVars, tickVars, outmapVars>>

vars == <<pulseVars, spindleVars, inputVars, dispatchVars, delayVars, nvicVars, otherVars>>

\* ---------------------------------------------------------- pulse generator

\* invert masks the model draws for the step and direction outputs
StepInvertMasks == {0, 5}
DirInvertMasks == {0, 3}
\* step and direction patterns the upstream executor issues
StepPatterns == {0, 1, 6}
DirPatterns == {0, 2, 5}

\* set_step_outputs: the value written to STEP_PORT under HWSTEP_MASK
set_step_outputs(step_outbits) == Xor(step_outbits, step_invert)

\* set_dir_outputs: the value written to DIRECTION_PORT under HWDIRECTION_MASK
set_dir_outputs(dir_outbits) == Xor(dir_outbits, dir_invert)

\* logical step outputs currently asserted
StepAsserted == Xor(step_port, step_invert)

\* TimerEnable on a one-shot count-down timer: a stopped timer starts from its
\* load value, a running timer is left alone
TimerEnable(t) == IF t.en THEN t ELSE [t EXCEPT !.en = TRUE, !.count = t.load]

\* masked interrupt status of the pulse timer (TimerIntStatus(base, true))
PulseIntStatus == pulse_timer.ris \cap pulse_timer.imask

PulseIntPending == PulseIntStatus # {}

\* PulseTimerConfig with the "- 1" of both load values forgotten
PulseTimerConfig_LoadOffByOne(pw, pd) ==
    IF pd # 0
    THEN [handler |-> "stepper_pulse_isr_delayed",
          match   |-> pw,
          load    |-> pw + pd,
          imask   |-> {"TIMEOUT", "MATCH"},
          start   |-> "stepperPulseStartDelayed"]
    ELSE [handler |-> "stepper_pulse_isr",
          match   |-> -1,
          load    |-> pw,
          imask   |-> {"TIMEOUT"},
          start   |-> "stepperPulseStart"]

\* settings_changed, pulse timer part: handler, match/load, interrupt sources, pulse start
PulseTimerConfig(pw, pd) ==
    IF pd # 0
    THEN [handler |-> "stepper_pulse_isr_delayed",
          match   |-> pw,
          load    |-> pw + pd - 1,
          imask   |-> {"TIMEOUT", "MATCH"},
          start   |-> "stepperPulseStartDelayed"]
    ELSE [handler |-> "stepper_pulse_isr",
          match   |-> -1,
          load    |-> pw - 1,
          imask   |-> {"TIMEOUT"},
          start   |-> "stepperPulseStart"]

\* effect of asserting / clearing step outputs on the edge observation
EdgeAfterWrite(bits) ==
    IF edge_balance = 2 THEN 2
    ELSE IF bits # 0 THEN Min(2, edge_balance + 1)
    ELSE 0

\* stepperPulseStart with the reset of new_block left out
stepperPulseStart_NoReset(st) ==
    /\ stepper' = st
    /\ dir_port' = IF st.new_block THEN set_dir_outputs(st.dir_outbits) ELSE dir_port
    /\ dir_written' = st.new_block
    /\ IF st.step_outbits # 0
       THEN /\ step_port' = set_step_outputs(st.step_outbits)
            /\ pulse_timer' = TimerEnable(pulse_timer)
            /\ cmd_armed' = TRUE
            /\ edge_balance' = EdgeAfterWrite(st.step_outbits)
            /\ width' = IF StepAsserted = 0 THEN 0 ELSE width
       ELSE /\ cmd_armed' = FALSE
            /\ UNCHANGED <<step_port, pulse_timer, edge_balance, width>>
    /\ UNCHANGED next_step_outbits

\* stepperPulseStart: immediate variant
stepperPulseStart(st) ==
    /\ stepper' = [st EXCEPT !.new_block = FALSE]
    /\ dir_port' = IF st.new_block THEN set_dir_outputs(st.dir_outbits) ELSE dir_port
    /\ dir_written' = st.new_block
    /\ IF st.step_outbits # 0
       THEN /\ step_port' = set_step_outputs(st.step_outbits)
            /\ pulse_timer' = TimerEnable(pulse_timer)
            /\ cmd_armed' = TRUE
            /\ edge_balance' = EdgeAfterWrite(st.step_outbits)
            /\ width' = IF StepAsserted = 0 THEN 0 ELSE width
       ELSE /\ cmd_armed' = FALSE
            /\ UNCHANGED <<step_port, pulse_timer, edge_balance, width>>
    /\ UNCHANGED next_step_outbits

\* stepperPulseStartDelayed arming the timer without the test of step_outbits
stepperPulseStartDelayed_AlwaysArm(st) ==
    /\ stepper' = [st EXCEPT !.new_block = FALSE]
    /\ dir_port' = IF st.new_block THEN set_dir_outputs(st.dir_outbits) ELSE dir_port
    /\ dir_written' = st.new_block
    /\ next_step_outbits' = st.step_outbits
    /\ pulse_timer' = TimerEnable(pulse_timer)
    /\ cmd_armed' = TRUE
    /\ UNCHANGED <<step_port, edge_balance, width>>

\* stepperPulseStartDelayed: delayed variant
stepperPulseStartDelayed(st) ==
    /\ stepper' = [st EXCEPT !.new_block = FALSE]
    /\ dir_port' = IF st.new_block THEN set_dir_outputs(st.dir_outbits) ELSE dir_port
    /\ dir_written' = st.new_block
    /\ IF st.step_outbits # 0
       THEN /\ next_step_outbits' = st.step_outbits
            /\ pulse_timer' = TimerEnable(pulse_timer)
            /\ cmd_armed' = TRUE
       ELSE /\ cmd_armed' = FALSE
            /\ UNCHANGED <<next_step_outbits, pulse_timer>>
    /\ UNCHANGED <<step_port, edge_balance, width>>

\* stepper_driver_isr: the upstream callback prepares the stepper_t fields (a new
\* block sets new_block and the direction bits) and calls hal.stepper_pulse_start.
\* The pulse timer interrupt has the higher priority, so it is serviced first.
StepperDriverIsr(newblk, dir, step) ==
    /\ stepper_timer_en
    /\ ~PulseIntPending
    /\ LET st == [new_block   |-> IF newblk THEN TRUE ELSE stepper.new_block,
                  dir_outbits |-> IF newblk THEN dir ELSE stepper.dir_outbits,
                  step_outbits |-> step]
       IN /\ cmd_nb' = st.new_block
          /\ IF pulse_start = "stepperPulseStartDelayed"
             THEN stepperPulseStartDelayed(st)
             ELSE stepperPulseStart(st)
    /\ pev' = "start"
    /\ spaced_ok' = (spaced_ok /\ since_cmd > pulse_microseconds + pulse_delay_microseconds)
    /\ since_cmd' = 0
    /\ idle_cleared' = FALSE
    /\ UNCHANGED <<pulse_microseconds, pulse_delay_microseconds, step_invert, dir_invert,
                   pulse_handler, pulse_start, last_width, stepper_timer_en>>
    /\ UNCHANGED <<spindleVars, inputVars, dispatchVars, delayVars, nvicVars, otherVars>>

\* stepper_pulse_isr clearing the flag but not the step outputs
stepper_pulse_isr_NoClear ==
    /\ pulse_timer' = [pulse_timer EXCEPT !.ris = @ \ {"TIMEOUT"}]
    /\ step_port' = step_port
    /\ pev' = "timeout"

\* stepper_pulse_isr: immediate-mode handler
stepper_pulse_isr ==
    /\ pulse_timer' = [pulse_timer EXCEPT !.ris = @ \ {"TIMEOUT"}]
    /\ step_port' = set_step_outputs(0)
    /\ pev' = "timeout"

\* stepper_pulse_isr_delayed testing the time-out flag instead of the match flag
stepper_pulse_isr_delayed_WrongFlag ==
    LET iflags == PulseIntStatus
    IN /\ pulse_timer' = [pulse_timer EXCEPT !.ris = @ \ iflags]
       /\ step_port' = IF "TIMEOUT" \in iflags
                       THEN set_step_outputs(next_step_outbits)
                       ELSE set_step_outputs(0)
       /\ pev' = IF "MATCH" \in iflags THEN "match" ELSE "timeout"

\* stepper_pulse_isr_delayed: match applies the buffered pattern, otherwise clear
stepper_pulse_isr_delayed ==
    LET iflags == PulseIntStatus
    IN /\ pulse_timer' = [pulse_timer EXCEPT !.ris = @ \ iflags]
       /\ step_port' = IF "MATCH" \in iflags
                       THEN set_step_outputs(next_step_outbits)
                       ELSE set_step_outputs(0)
       /\ pev' = IF "MATCH" \in iflags THEN "match" ELSE "timeout"

\* the pulse timer interrupt, dispatched to the registered handler
PulseTimerIsr ==
    /\ PulseIntPending
    /\ IF pulse_handler = "stepper_pulse_isr_delayed"
       THEN stepper_pulse_isr_delayed
       ELSE stepper_pulse_isr
    /\ edge_balance' = EdgeAfterWrite(Xor(step_port', step_invert))
    /\ width' = IF Xor(step_port', step_invert) # 0 /\ StepAsserted = 0 THEN 0 ELSE width
    /\ last_width' = IF Xor(step_port', step_invert) = 0 /\ StepAsserted # 0
                     THEN width ELSE last_width
    /\ UNCHANGED <<pulse_microseconds, pulse_delay_microseconds, step_invert, dir_invert,
                   stepper, dir_port, next_step_outbits, pulse_handler, pulse_start,
                   cmd_nb, cmd_armed, dir_written, since_cmd, spaced_ok,
                   stepper_timer_en, idle_cleared>>
    /\ UNCHANGED <<spindleVars, inputVars, dispatchVars, delayVars, nvicVars, otherVars>>

\* one count (1 us) of the one-shot count-down pulse timer: the count's events are
\* raised at the end of the count, the time-out stops the timer and reloads it.
\* A pending pulse interrupt is serviced before the next count.
PulseTimerCount(t) ==
    IF ~t.en THEN t
    ELSE [t EXCEPT
            !.ris   = @ \cup (IF t.count = t.match THEN {"MATCH"} ELSE {})
                        \cup (IF t.count = 0 THEN {"TIMEOUT"} ELSE {}),
            !.en    = (t.count # 0),
            !.count = IF t.count = 0 THEN t.load ELSE t.count - 1]

SinceCap == pulse_microseconds + pulse_delay_microseconds + 1

PulseTimerTick ==
    /\ ~PulseIntPending
    /\ pulse_timer.en \/ since_cmd < SinceCap
    /\ pulse_timer' = PulseTimerCount(pulse_timer)
    /\ since_cmd' = Min(SinceCap, since_cmd + 1)
    /\ width' = IF StepAsserted # 0 THEN Min(SinceCap + 1, width + 1) ELSE width
    /\ pev' = "tick"
    /\ UNCHANGED <<pulse_microseconds, pulse_delay_microseconds, step_invert, dir_invert,
                   stepper, step_port, dir_port, next_step_outbits, pulse_handler,
                   pulse_start, cmd_nb, cmd_armed, dir_written, spaced_ok, edge_balance,
                   last_width, stepper_timer_en, idle_cleared>>
    /\ UNCHANGED <<spindleVars, inputVars, dispatchVars, delayVars, nvicVars, otherVars>>

\* stepperGoIdle: stops STEPPER_TIMER and, with clear_signals, writes the step and
\* direction outputs; PULSE_TIMER is left as it is. The pulse timer interrupt has the
\* higher priority, so it is serviced first.
stepperGoIdle(clear_signals) ==
    /\ ~PulseIntPending
    /\ stepper_timer_en' = FALSE
    /\ step_port' = IF clear_signals THEN set_step_outputs(0) ELSE step_port
    /\ dir_port' = IF clear_signals THEN set_dir_outputs(0) ELSE dir_port
    /\ idle_cleared' = (clear_signals \/ idle_cleared)
    /\ pev' = "go_idle"
    /\ edge_balance' = IF clear_signals THEN EdgeAfterWrite(0) ELSE edge_balance
    /\ last_width' = IF clear_signals /\ StepAsserted # 0 THEN width ELSE last_width
    /\ UNCHANGED <<pulse_microseconds, pulse_delay_microseconds, step_invert, dir_invert,
                   stepper, next_step_outbits, pulse_timer, pulse_handler, pulse_start,
                   cmd_nb, cmd_armed, dir_written, since_cmd, spaced_ok, width>>
    /\ UNCHANGED <<spindleVars, inputVars, dispatchVars, delayVars, nvicVars, otherVars>>

\* stepperWakeUp: starts STEPPER_TIMER; a LASER_PPI build restarts the laser pulse count
stepperWakeUp ==
    /\ ~stepper_timer_en
    /\ stepper_timer_en' = TRUE
    /\ pev' = "wake_up"
    /\ UNCHANGED <<pulse_microseconds, pulse_delay_microseconds, step_invert, dir_invert,
                   stepper, step_port, dir_port, next_step_outbits, pulse_timer,
                   pulse_handler, pulse_start, cmd_nb, cmd_armed, dir_written, since_cmd,
                   spaced_ok, edge_balance, width, last_width, idle_cleared>>
    /\ laser' = IF LASER_PPI THEN [laser EXCEPT !.next_pulse = 0] ELSE laser
    /\ UNCHANGED <<LASER_PPI, current_pwm, ppi_timer, ppi_steps, ppi_gap>>
    /\ UNCHANGED <<spindleVars, inputVars, dispatchVars, delayVars, nvicVars>>
    /\ UNCHANGED <<setupVars, settingVars, atomicVars, queryVars, tickVars, outmapVars>>

\* ------------------------------------------------------------- spindle PWM

\* spindle_pwm.off_value and settings.spindle.invert as the model draws them
OffValues == {0, 2}
SpindleInverts == {[on |-> FALSE, ccw |-> FALSE, pwm |-> FALSE],
                   [on |-> TRUE,  ccw |-> TRUE,  pwm |-> TRUE]}
\* duty values other than off_value lie in [min_value, max_value]; the ones the
\* model passes to set_speed: both ends, their neighbours and one ramp step above
\* the minimum
PwmValues == {PwmMin, PwmMin + 1, PwmMin + SPINDLE_RAMP_STEP_INCR, PwmMax - 1, PwmMax}
\* set_state calls of the model: <<state.on, state.ccw, rpm = 0, computed duty>>
SetStateCalls == {<<FALSE, FALSE, TRUE, PwmMin>>,
                  <<TRUE, FALSE, TRUE, PwmMin>>,
                  <<TRUE, FALSE, FALSE, PwmMin>>,
                  <<TRUE, TRUE, FALSE, PwmMax>>}

\* the spindle hardware and driver state the spindle functions work on
SpindleState ==
    [pwm_ramp      |-> pwm_ramp,
     pwmEnabled    |-> pwmEnabled,
     enable_pin    |-> spindle_enable_pin,
     direction_pin |-> spindle_direction_pin,
     pwm_timer     |-> pwm_timer,
     systick_en    |-> systick_en,
     delay         |-> delay]

ApplySpindle(s) ==
    /\ pwm_ramp' = s.pwm_ramp
    /\ pwmEnabled' = s.pwmEnabled
    /\ spindle_enable_pin' = s.enable_pin
    /\ spindle_direction_pin' = s.direction_pin
    /\ pwm_timer' = s.pwm_timer
    /\ systick_en' = s.systick_en
    /\ delay' = s.delay

\* spindle_off, spindle_on, spindle_dir: the level written to the pin
spindle_off(s) == [s EXCEPT !.enable_pin = spindle_invert.on]
spindle_on(s) == [s EXCEPT !.enable_pin = ~spindle_invert.on]
spindle_dir(s, ccw) == [s EXCEPT !.direction_pin = (ccw # spindle_invert.ccw)]

\* spindle_set_speed (PWM_RAMPED) that starts the PWM without seeding pwm_current
spindle_set_speed_ramped_NoSeed(s, pwm_value) ==
    IF pwm_value = off_value
    THEN [s EXCEPT !.pwm_ramp = [@ EXCEPT !.pwm_target = 0,
                                          !.pwm_step = -SPINDLE_RAMP_STEP_INCR,
                                          !.ms_delay = 0,
                                          !.ms_cfg = SPINDLE_RAMP_STEP_TIME],
                   !.systick_en = TRUE]
    ELSE LET s1 == IF ~s.pwmEnabled
                   THEN [spindle_on(s) EXCEPT
                           !.pwmEnabled = TRUE,
                           !.pwm_ramp = [@ EXCEPT !.ms_delay = 0],
                           !.pwm_timer = [@ EXCEPT !.match = PwmPeriod - PwmMin + 15,
                                                   !.load = PwmPeriod,
                                                   !.en = TRUE]]
                   ELSE s
         IN [s1 EXCEPT !.pwm_ramp = [@ EXCEPT
                              !.pwm_target = pwm_value,
                              !.pwm_step = IF pwm_value < s1.pwm_ramp.pwm_current
                                           THEN -SPINDLE_RAMP_STEP_INCR
                                           ELSE SPINDLE_RAMP_STEP_INCR,
                              !.ms_cfg = SPINDLE_RAMP_STEP_TIME],
                       !.pwm_timer = [@ EXCEPT !.level = FALSE],
                       !.systick_en = TRUE]

\* spindle_set_speed, PWM_RAMPED build
spindle_set_speed_ramped(s, pwm_value) ==
    IF pwm_value = off_value
    THEN [s EXCEPT !.pwm_ramp = [@ EXCEPT !.pwm_target = 0,
                                          !.pwm_step = -SPINDLE_RAMP_STEP_INCR,
                                          !.ms_delay = 0,
                                          !.ms_cfg = SPINDLE_RAMP_STEP_TIME],
                   !.systick_en = TRUE]
    ELSE LET s1 == IF ~s.pwmEnabled
                   THEN [spindle_on(s) EXCEPT
                           !.pwmEnabled = TRUE,
                           !.pwm_ramp = [@ EXCEPT !.pwm_current = PwmMin, !.ms_delay = 0],
                           !.pwm_timer = [@ EXCEPT !.match = PwmPeriod - PwmMin + 15,
                                                   !.load = PwmPeriod,
                                                   !.en = TRUE]]
                   ELSE s
         IN [s1 EXCEPT !.pwm_ramp = [@ EXCEPT
                              !.pwm_target = pwm_value,
                              !.pwm_step = IF pwm_value < s1.pwm_ramp.pwm_current
                                           THEN -SPINDLE_RAMP_STEP_INCR
                                           ELSE SPINDLE_RAMP_STEP_INCR,
                              !.ms_cfg = SPINDLE_RAMP_STEP_TIME],
                       !.pwm_timer = [@ EXCEPT !.level = FALSE],
                       !.systick_en = TRUE]

\* spindle_set_speed (no PWM_RAMPED) whose off branch tests pwmEnabled as it was on
\* entry: enables a stopped timer and stops only a running one
spindle_set_speed_direct_StaleFlag(s, pwm_value) ==
    IF pwm_value = off_value
    THEN LET s1 == [s EXCEPT !.pwmEnabled = FALSE]
             s2 == IF disable_with_zero_speed THEN spindle_off(s1) ELSE s1
         IN IF always_on
            THEN [s2 EXCEPT !.pwm_timer = [@ EXCEPT !.match = off_value,
                                                    !.level = ~spindle_invert.pwm,
                                                    !.en = TRUE]]
            ELSE [s2 EXCEPT !.pwm_timer = [@ EXCEPT !.load = PwmPeriod + 20000,
                                                    !.level = ~spindle_invert.pwm,
                                                    !.en = ~s.pwmEnabled]]
    ELSE LET s1 == [s EXCEPT !.pwm_timer = [@ EXCEPT !.match = pwm_value]]
         IN IF ~s1.pwmEnabled
            THEN [spindle_on(s1) EXCEPT
                    !.pwmEnabled = TRUE,
                    !.pwm_timer = [@ EXCEPT !.load = PwmPeriod,
                                            !.level = ~spindle_invert.pwm,
                                            !.en = TRUE]]
            ELSE s1

\* spindle_set_speed (no PWM_RAMPED) that does not write the match register
spindle_set_speed_direct_KeepDuty(s, pwm_value) ==
    IF pwm_value = off_value
    THEN LET s1 == [s EXCEPT !.pwmEnabled = FALSE]
             s2 == IF disable_with_zero_speed THEN spindle_off(s1) ELSE s1
         IN IF always_on
            THEN [s2 EXCEPT !.pwm_timer = [@ EXCEPT !.match = off_value,
                                                    !.level = ~spindle_invert.pwm,
                                                    !.en = TRUE]]
            ELSE [s2 EXCEPT !.pwm_timer = [@ EXCEPT !.load = PwmPeriod + 20000,
                                                    !.level = ~spindle_invert.pwm,
                                                    !.en = FALSE]]
    ELSE LET s1 == s
         IN IF ~s1.pwmEnabled
            THEN [spindle_on(s1) EXCEPT
                    !.pwmEnabled = TRUE,
                    !.pwm_timer = [@ EXCEPT !.load = PwmPeriod,
                                            !.level = ~spindle_invert.pwm,
                                            !.en = TRUE]]
            ELSE s1

\* spindle_set_speed, build without PWM_RAMPED
spindle_set_speed_direct(s, pwm_value) ==
    IF pwm_value = off_value
    THEN LET s1 == [s EXCEPT !.pwmEnabled = FALSE]
             s2 == IF disable_with_zero_speed THEN spindle_off(s1) ELSE s1
         IN IF always_on
            THEN [s2 EXCEPT !.pwm_timer = [@ EXCEPT !.match = off_value,
                                                    !.level = ~spindle_invert.pwm,
                                                    !.en = TRUE]]
            ELSE [s2 EXCEPT !.pwm_timer = [@ EXCEPT !.load = PwmPeriod + 20000,
                                                    !.level = ~spindle_invert.pwm,
                                                    !.en = FALSE]]
    ELSE LET s1 == [s EXCEPT !.pwm_timer = [@ EXCEPT !.match = pwm_value]]
         IN IF ~s1.pwmEnabled
            THEN [spindle_on(s1) EXCEPT
                    !.pwmEnabled = TRUE,
                    !.pwm_timer = [@ EXCEPT !.load = PwmPeriod,
                                            !.level = ~spindle_invert.pwm,
                                            !.en = TRUE]]
            ELSE s1

spindle_set_speed(s, pwm_value) ==
    IF PWM_RAMPED THEN spindle_set_speed_ramped(s, pwm_value)
    ELSE spindle_set_speed_direct(s, pwm_value)

\* spindleSetStateVariable; pwm_value is spindle_compute_pwm_value(rpm)
spindleSetStateVariable(s, on, ccw, rpm_zero, pwm_value) ==
    IF ~on \/ rpm_zero
    THEN spindle_off(spindle_set_speed(s, off_value))
    ELSE spindle_set_speed(spindle_dir(s, ccw), pwm_value)

\* a ramp step is due on this tick
RampStepDue(r) == r.ms_cfg # 0 /\ r.ms_delay + 1 = r.ms_cfg

\* systick_ramp with the clamp of an increasing ramp left out
systick_ramp_NoClampUp(s) ==
    LET r == s.pwm_ramp
    IN IF r.ms_cfg = 0 THEN s
       ELSE IF ~RampStepDue(r) THEN [s EXCEPT !.pwm_ramp.ms_delay = @ + 1]
       ELSE LET moved == r.pwm_current + r.pwm_step
                cur == IF r.pwm_step < 0
                       THEN (IF moved < r.pwm_target THEN r.pwm_target ELSE moved)
                       ELSE moved
                stop == r.pwm_step < 0 /\ cur = 0
                s1 == IF stop /\ disable_with_zero_speed THEN spindle_off(s) ELSE s
            IN [s1 EXCEPT
                  !.pwm_ramp = [@ EXCEPT !.ms_delay = 0,
                                         !.pwm_current = cur,
                                         !.ms_cfg = IF cur = r.pwm_target THEN 0 ELSE @],
                  !.pwm_timer = IF stop
                                THEN [@ EXCEPT !.load = PwmPeriod + 20000,
                                               !.en = FALSE,
                                               !.level = IF s.pwmEnabled THEN TRUE ELSE @]
                                ELSE [@ EXCEPT !.match = PwmPeriod - cur],
                  !.pwmEnabled = IF stop THEN FALSE ELSE @]

\* systick_ramp stopping the PWM on the first step of a decreasing ramp
systick_ramp_StopEarly(s) ==
    LET r == s.pwm_ramp
    IN IF r.ms_cfg = 0 THEN s
       ELSE IF ~RampStepDue(r) THEN [s EXCEPT !.pwm_ramp.ms_delay = @ + 1]
       ELSE LET moved == r.pwm_current + r.pwm_step
                cur == IF r.pwm_step < 0
                       THEN (IF moved < r.pwm_target THEN r.pwm_target ELSE moved)
                       ELSE (IF moved > r.pwm_target THEN r.pwm_target ELSE moved)
                stop == r.pwm_step < 0
                s1 == IF stop /\ disable_with_zero_speed THEN spindle_off(s) ELSE s
            IN [s1 EXCEPT
                  !.pwm_ramp = [@ EXCEPT !.ms_delay = 0,
                                         !.pwm_current = cur,
                                         !.ms_cfg = IF cur = r.pwm_target THEN 0 ELSE @],
                  !.pwm_timer = IF stop
                                THEN [@ EXCEPT !.load = PwmPeriod + 20000,
                                               !.en = FALSE,
                                               !.level = IF s.pwmEnabled THEN TRUE ELSE @]
                                ELSE [@ EXCEPT !.match = PwmPeriod - cur],
                  !.pwmEnabled = IF stop THEN FALSE ELSE @]

\* systick_isr, PWM_RAMPED build: the ramp part (lines up to the ms_cfg reset)
systick_ramp(s) ==
    LET r == s.pwm_ramp
    IN IF r.ms_cfg = 0 THEN s
       ELSE IF ~RampStepDue(r) THEN [s EXCEPT !.pwm_ramp.ms_delay = @ + 1]
       ELSE LET moved == r.pwm_current + r.pwm_step
                cur == IF r.pwm_step < 0
                       THEN (IF moved < r.pwm_target THEN r.pwm_target ELSE moved)
                       ELSE (IF moved > r.pwm_target THEN r.pwm_target ELSE moved)
                stop == r.pwm_step < 0 /\ cur = 0
                s1 == IF stop /\ disable_with_zero_speed THEN spindle_off(s) ELSE s
            IN [s1 EXCEPT
                  !.pwm_ramp = [@ EXCEPT !.ms_delay = 0,
                                         !.pwm_current = cur,
                                         !.ms_cfg = IF cur = r.pwm_target THEN 0 ELSE @],
                  !.pwm_timer = IF stop
                                THEN [@ EXCEPT !.load = PwmPeriod + 20000,
                                               !.en = FALSE,
                                               !.level = IF s.pwmEnabled THEN TRUE ELSE @]
                                ELSE [@ EXCEPT !.match = PwmPeriod - cur],
                  !.pwmEnabled = IF stop THEN FALSE ELSE @]

\* the delay callback runs in this tick (PWM_RAMPED build)
DelayFires(d) == d.ms = 1 /\ d.callback # "NULL"

\* systick_isr, PWM_RAMPED build
systick_isr_ramped(s) ==
    LET s1 == systick_ramp(s)
        d == s1.delay
        d1 == IF d.ms # 0
              THEN [ms |-> d.ms - 1,
                    callback |-> IF DelayFires(d) THEN "NULL" ELSE d.callback]
              ELSE d
    IN [s1 EXCEPT !.delay = d1,
                  !.systick_en = IF d1.ms = 0 /\ s1.pwm_ramp.ms_cfg = 0 THEN FALSE ELSE @]

\* range of the delay countdown
DelayModulus == 2 ^ DelayBits

\* systick_isr, build without PWM_RAMPED (--delay.ms wraps at zero)
systick_isr_direct(s) ==
    LET ms == (s.delay.ms + DelayModulus - 1) % DelayModulus
    IN IF ms = 0
       THEN [s EXCEPT !.delay = [ms |-> 0, callback |-> "NULL"], !.systick_en = FALSE]
       ELSE [s EXCEPT !.delay.ms = ms]

systick_isr(s) ==
    IF PWM_RAMPED THEN systick_isr_ramped(s) ELSE systick_isr_direct(s)

\* the callback systick_isr invokes on this tick, "NULL" when it invokes none
TickCallback(s) ==
    IF PWM_RAMPED
    THEN (IF DelayFires(s.delay) THEN s.delay.callback ELSE "NULL")
    ELSE (IF (s.delay.ms + DelayModulus - 1) % DelayModulus = 0
          THEN s.delay.callback ELSE "NULL")

\* what set_speed(off_value) is said to leave the same: enable pin, PWM timer,
\* pwmEnabled, ramp current and target
HwState ==
    [enable_pin  |-> spindle_enable_pin,
     pwm_timer   |-> pwm_timer,
     pwmEnabled  |-> pwmEnabled,
     pwm_current |-> pwm_ramp.pwm_current,
     pwm_target  |-> pwm_ramp.pwm_target]

\* no ramp is in progress (always so without PWM_RAMPED)
Settled == pwm_ramp.ms_cfg = 0

\* the last call of driver_setup: hal.spindle_set_state((spindle_state_t){0}, 0.0f)
SpindleBoot ==
    /\ ~spindle_ready
    /\ main_pc = "idle"
    /\ spindle_ready' = TRUE
    /\ ApplySpindle(spindleSetStateVariable(SpindleState, FALSE, FALSE, TRUE, off_value))
    /\ sev' = "set_state"
    /\ ramp_c0' = pwm_ramp'.pwm_current
    /\ ramp_steps' = 0
    /\ since_step' = 0
    /\ off_run' = 0
    /\ off_snap' = <<>>
    /\ UNCHANGED <<PWM_RAMPED, off_value, always_on, disable_with_zero_speed, spindle_invert>>
    /\ UNCHANGED <<pulseVars, inputVars, dispatchVars, delayVars, nvicVars, otherVars>>

\* hal.spindle_update_pwm / spindleUpdateRPM: spindle_set_speed from the main context
SpindleSetSpeed(pwm_value) ==
    /\ spindle_ready
    /\ main_pc = "idle"
    /\ ApplySpindle(spindle_set_speed(SpindleState, pwm_value))
    /\ sev' = "set_speed"
    /\ ramp_c0' = pwm_ramp'.pwm_current
    /\ ramp_steps' = 0
    /\ since_step' = 0
    /\ IF pwm_value # off_value
       THEN off_run' = 0 /\ off_snap' = <<>>
       ELSE IF off_run >= 1 /\ off_snap # <<>> /\ Settled
            THEN off_run' = 2 /\ off_snap' = off_snap
            ELSE /\ off_run' = 1
                 /\ off_snap' = IF PWM_RAMPED THEN <<>> ELSE <<HwState'>>
    /\ UNCHANGED <<PWM_RAMPED, off_value, always_on, disable_with_zero_speed, spindle_invert,
                   spindle_ready>>
    /\ UNCHANGED <<pulseVars, inputVars, dispatchVars, delayVars, nvicVars, otherVars>>

\* hal.spindle_set_state from the main context
SpindleSetState(on, ccw, rpm_zero, pwm_value) ==
    /\ spindle_ready
    /\ main_pc = "idle"
    /\ ApplySpindle(spindleSetStateVariable(SpindleState, on, ccw, rpm_zero, pwm_value))
    /\ sev' = "set_state"
    /\ ramp_c0' = pwm_ramp'.pwm_current
    /\ ramp_steps' = 0
    /\ since_step' = 0
    /\ off_run' = 0
    /\ off_snap' = <<>>
    /\ UNCHANGED <<PWM_RAMPED, off_value, always_on, disable_with_zero_speed, spindle_invert,
                   spindle_ready>>
    /\ UNCHANGED <<pulseVars, inputVars, dispatchVars, delayVars, nvicVars, otherVars>>

\* positions of driver_delay_ms from its first read of delay to its last write of it
MidUpdate == {"pending", "store_ms", "enable", "store_cb", "z_test", "z_clear", "z_set"}

\* saturation of req_ticks
TicksCap == MaxMs + 1

\* longest record of invoked callbacks kept
CallsCap == 3

\* req_calls after one more invocation
Invoked(callback, context, ticks) ==
    IF Len(req_calls) < CallsCap
    THEN Append(req_calls, <<callback, context, ticks>>)
    ELSE req_calls

\* the 1 ms SysTick interrupt
SysTick ==
    /\ systick_en
    /\ ApplySpindle(systick_isr(SpindleState))
    /\ sev' = IF PWM_RAMPED /\ RampStepDue(pwm_ramp) THEN "ramp_step" ELSE "tick"
    /\ ramp_steps' = IF PWM_RAMPED /\ RampStepDue(pwm_ramp) THEN ramp_steps + 1 ELSE ramp_steps
    /\ since_step' = IF PWM_RAMPED /\ RampStepDue(pwm_ramp) THEN 0
                     ELSE Min(SPINDLE_RAMP_STEP_TIME, since_step + 1)
    /\ off_snap' = IF PWM_RAMPED /\ off_run = 1 /\ off_snap = <<>>
                      /\ pwm_ramp.ms_cfg # 0 /\ pwm_ramp'.ms_cfg = 0
                   THEN <<HwState'>> ELSE off_snap
    /\ req_ticks' = Min(TicksCap, req_ticks + 1)
    /\ req_calls' = IF TickCallback(SpindleState) = "NULL" THEN req_calls
                    ELSE Invoked(TickCallback(SpindleState), "tick", req_ticks')
    /\ UNCHANGED <<PWM_RAMPED, off_value, always_on, disable_with_zero_speed, spindle_invert,
                   spindle_ready, ramp_c0, off_run>>
    /\ raced' = (raced \/ main_pc \in MidUpdate)
    /\ UNCHANGED <<main_pc, req, entry>>
    /\ UNCHANGED <<pulseVars, inputVars, dispatchVars, nvicVars, otherVars>>

\* state when driver_setup reaches its final spindle_set_state call: static
\* initialisers, SysTick started by driver_init, PWM timer configured and stopped
SpindleInit ==
    /\ PWM_RAMPED \in BOOLEAN
    /\ off_value \in OffValues
    /\ always_on \in (IF PWM_RAMPED THEN {FALSE} ELSE BOOLEAN)
    /\ disable_with_zero_speed \in BOOLEAN
    /\ spindle_invert \in SpindleInverts
    /\ spindle_ready = FALSE
    /\ pwm_ramp = [ms_cfg |-> 0, ms_delay |-> 0, pwm_current |-> 0, pwm_target |-> 0,
                   pwm_step |-> 0]
    /\ pwmEnabled = FALSE
    /\ spindle_enable_pin = FALSE
    /\ spindle_direction_pin = FALSE
    /\ pwm_timer = [en |-> FALSE, match |-> 0, load |-> PwmPeriod, level |-> FALSE]
    /\ systick_en = TRUE
    /\ delay = [ms |-> 1, callback |-> "NULL"]
    /\ sev = "init"
    /\ ramp_c0 = 0
    /\ ramp_steps = 0
    /\ since_step = 0
    /\ off_run = 0
    /\ off_snap = <<>>

\* one fixed spindle configuration, left at rest
SpindleQuiet ==
    /\ SpindleInit
    /\ PWM_RAMPED = FALSE
    /\ off_value = 0
    /\ always_on = FALSE
    /\ disable_with_zero_speed = FALSE
    /\ spindle_invert = [on |-> FALSE, ccw |-> FALSE, pwm |-> FALSE]

SpindleNext ==
    \/ SpindleBoot
    \/ \E v \in PwmValues \cup {off_value} : SpindleSetSpeed(v)
    \/ \E c \in SetStateCalls : SpindleSetState(c[1], c[2], c[3], c[4])
    \/ SysTick

\* ------------------------------------------------------------ delay requests

\* callbacks handed to hal.delay_ms
Callbacks == {"A", "B"}

\* what the delay steps leave alone
DelayFrame ==
    /\ sev' = "delay"
    /\ UNCHANGED raced
    /\ UNCHANGED <<PWM_RAMPED, off_value, always_on, disable_with_zero_speed, spindle_invert,
                   spindle_ready, pwm_ramp, pwmEnabled, spindle_enable_pin,
                   spindle_direction_pin, pwm_timer, ramp_c0, ramp_steps, since_step,
                   off_run, off_snap>>
    /\ UNCHANGED <<pulseVars, inputVars, dispatchVars, nvicVars, otherVars>>

\* driver_delay_ms, entry: the test of delay.callback
DelayEnter(ms, callback) ==
    /\ main_pc = "idle"
    /\ req' = [ms |-> ms, callback |-> callback]
    /\ entry' = delay.callback
    /\ req_ticks' = 0
    /\ req_calls' = <<>>
    /\ main_pc' = IF delay.callback # "NULL" THEN "pending"
                  ELSE IF ms # 0 THEN "store_ms" ELSE "z_test"
    /\ UNCHANGED <<delay, systick_en>>
    /\ DelayFrame

\* delay.callback(): the pointer called is the one tested or, read again, the one a
\* tick has left since; a call through NULL faults
DelayCallPending ==
    /\ main_pc = "pending"
    /\ \E f \in {entry, delay.callback} :
          IF f = "NULL"
          THEN /\ main_pc' = "fault"
               /\ UNCHANGED req_calls
          ELSE /\ main_pc' = IF req.ms # 0 THEN "store_ms" ELSE "z_test"
               /\ req_calls' = Invoked(f, "main", req_ticks)
    /\ UNCHANGED <<delay, systick_en, req, entry, req_ticks>>
    /\ DelayFrame

\* delay.ms = ms
DelayStoreMs ==
    /\ main_pc = "store_ms"
    /\ delay' = [delay EXCEPT !.ms = req.ms]
    /\ main_pc' = "enable"
    /\ UNCHANGED <<systick_en, req, entry, req_ticks, req_calls>>
    /\ DelayFrame

\* SysTickEnable()
DelayEnable ==
    /\ main_pc = "enable"
    /\ systick_en' = TRUE
    /\ main_pc' = "store_cb"
    /\ UNCHANGED <<delay, req, entry, req_ticks, req_calls>>
    /\ DelayFrame

\* delay.callback = callback; with a callback the function returns, without one it
\* goes on to while(delay.ms)
DelayStoreCallback ==
    /\ main_pc = "store_cb"
    /\ delay' = [delay EXCEPT !.callback = req.callback]
    /\ main_pc' = IF req.callback = "NULL" THEN "wait" ELSE "idle"
    /\ UNCHANGED <<systick_en, req, entry, req_ticks, req_calls>>
    /\ DelayFrame

\* the wait loop left whatever delay.ms reads
DelayWait_NoTest ==
    /\ main_pc = "wait"
    /\ main_pc' = "idle"
    /\ UNCHANGED <<delay, systick_en, req, entry, req_ticks, req_calls>>
    /\ DelayFrame

\* while(delay.ms); left when delay.ms reads zero
DelayWait ==
    /\ main_pc = "wait"
    /\ delay.ms = 0
    /\ main_pc' = "idle"
    /\ UNCHANGED <<delay, systick_en, req, entry, req_ticks, req_calls>>
    /\ DelayFrame

\* ms == 0: if(delay.ms)
DelayZeroTest ==
    /\ main_pc = "z_test"
    /\ main_pc' = IF delay.ms # 0 THEN "z_clear" ELSE "z_call"
    /\ UNCHANGED <<delay, systick_en, req, entry, req_ticks, req_calls>>
    /\ DelayFrame

\* delay.callback = NULL
DelayZeroClear ==
    /\ main_pc = "z_clear"
    /\ delay' = [delay EXCEPT !.callback = "NULL"]
    /\ main_pc' = "z_set"
    /\ UNCHANGED <<systick_en, req, entry, req_ticks, req_calls>>
    /\ DelayFrame

\* delay.ms = 1
DelayZeroSet ==
    /\ main_pc = "z_set"
    /\ delay' = [delay EXCEPT !.ms = 1]
    /\ main_pc' = "z_call"
    /\ UNCHANGED <<systick_en, req, entry, req_ticks, req_calls>>
    /\ DelayFrame

\* if(callback) callback(); and return
DelayZeroCall ==
    /\ main_pc = "z_call"
    /\ req_calls' = IF req.callback = "NULL" THEN req_calls
                    ELSE Invoked(req.callback, "main", req_ticks)
    /\ main_pc' = "idle"
    /\ UNCHANGED <<delay, systick_en, req, entry, req_ticks>>
    /\ DelayFrame

\* speed commanded while delays are exercised
DelaySpeeds == {PwmMax}

\* the spindle configured as in SpindleQuiet in either build, no delay requested yet
DelayInit ==
    /\ SpindleInit
    /\ off_value = 0
    /\ always_on = FALSE
    /\ disable_with_zero_speed = FALSE
    /\ spindle_invert = [on |-> FALSE, ccw |-> FALSE, pwm |-> FALSE]
    /\ main_pc = "idle"
    /\ req = [ms |-> 0, callback |-> "NULL"]
    /\ entry = "NULL"
    /\ req_ticks = 0
    /\ req_calls = <<>>
    /\ raced = FALSE

\* the main context outside driver_delay_ms and no request made
DelayQuiet ==
    /\ main_pc = "idle"
    /\ req = [ms |-> 0, callback |-> "NULL"]
    /\ entry = "NULL"
    /\ req_ticks = 0
    /\ req_calls = <<>>
    /\ raced = FALSE

DelayNext ==
    \/ \E ms \in 0..MaxMs, callback \in Callbacks \cup {"NULL"} : DelayEnter(ms, callback)
    \/ DelayCallPending
    \/ DelayStoreMs
    \/ DelayEnable
    \/ DelayStoreCallback
    \/ DelayWait
    \/ DelayZeroTest
    \/ DelayZeroClear
    \/ DelayZeroSet
    \/ DelayZeroCall
    \/ SpindleBoot
    \/ \E v \in DelaySpeeds : SpindleSetSpeed(v)
    \/ SysTick

\* the same steps with one callback among the requests
WaitNext ==
    \/ \E ms \in 0..MaxMs, callback \in {"A", "NULL"} : DelayEnter(ms, callback)
    \/ DelayCallPending
    \/ DelayStoreMs
    \/ DelayEnable
    \/ DelayStoreCallback
    \/ DelayWait
    \/ DelayZeroTest
    \/ DelayZeroClear
    \/ DelayZeroSet
    \/ DelayZeroCall
    \/ SpindleBoot
    \/ \E v \in DelaySpeeds : SpindleSetSpeed(v)
    \/ SysTick

\* ------------------------------------------------------- interrupt priorities

\* interrupt sources of the driver: PULSE_TIMER, STEPPER_TIMER, DEBOUNCE_TIMER, SysTick
\* and the limit GPIO port
Interrupts == {"pulse", "stepper", "debounce", "systick", "limit"}

\* the sources whose priority is set below that of the pulse timer
LowerInterrupts == {"stepper", "debounce", "systick"}

\* priority registers with the step-issue timer given the highest priority
IntPriority_StepperFirst(i) ==
    CASE i = "pulse" -> 32
      [] i = "stepper" -> 0
      [] i = "debounce" -> 64
      [] i = "systick" -> 64
      [] i = "limit" -> 0

\* priority registers: the IntPrioritySet calls of driver_setup and driver_init; the
\* limit port is never given one and keeps the reset value
IntPriority(i) ==
    CASE i = "pulse" -> 0
      [] i = "stepper" -> 32
      [] i = "debounce" -> 64
      [] i = "systick" -> 64
      [] i = "limit" -> 0

\* preemption level: the three bits of the register the controller implements
\* (a lower number is more urgent; no sub-priority grouping is configured)
PriorityLevel(i) == IntPriority(i) \div 32

\* the handler running now, <<>> in the main context
Running == IF nvic_active = <<>> THEN <<>> ELSE <<nvic_active[Len(nvic_active)]>>

\* interrupt i is pending and allowed in: more urgent than the running handler and
\* not less urgent than any other pending interrupt (ties go by exception number,
\* which the port and timer assignment decides)
CanEnter(i) ==
    /\ i \in nvic_pending
    /\ Running # <<>> => PriorityLevel(i) < PriorityLevel(Running[1])
    /\ \A j \in nvic_pending : PriorityLevel(i) <= PriorityLevel(j)

\* the hardware raises interrupt i
NvicRaise(i) ==
    /\ i \notin nvic_pending
    /\ nvic_pending' = nvic_pending \cup {i}
    /\ UNCHANGED nvic_active
    /\ UNCHANGED <<pulseVars, spindleVars, inputVars, dispatchVars, delayVars, otherVars>>

\* exception entry, preempting the running handler if there is one
NvicEnter(i) ==
    /\ CanEnter(i)
    /\ nvic_pending' = nvic_pending \ {i}
    /\ nvic_active' = Append(nvic_active, i)
    /\ UNCHANGED <<pulseVars, spindleVars, inputVars, dispatchVars, delayVars, otherVars>>

\* the running handler returns; it gets that far only if nothing preempts it
NvicExit ==
    /\ nvic_active # <<>>
    /\ \A i \in Interrupts : ~CanEnter(i)
    /\ nvic_active' = SubSeq(nvic_active, 1, Len(nvic_active) - 1)
    /\ UNCHANGED nvic_pending
    /\ UNCHANGED <<pulseVars, spindleVars, inputVars, dispatchVars, delayVars, otherVars>>

\* nothing pending, no handler entered
NvicInit ==
    /\ nvic_pending = {}
    /\ nvic_active = <<>>

NvicQuiet ==
    /\ nvic_pending = {}
    /\ nvic_active = <<>>

NvicNext ==
    \/ \E i \in Interrupts : NvicRaise(i)
    \/ \E i \in Interrupts : NvicEnter(i)
    \/ NvicExit

\* ------------------------------------------------------------ limit inputs

\* settings sampled for the limit inputs
LimitsInvertMasks == {0, 5}
DisablePullupMasks == {0, 4}

\* limit pins with a switch that moves (Y stays released)
SwitchedPins == {0, 2}

\* PROBE_PIN in the interrupt status of the limit port (0..2 are the limit pins)
ProbeBit == 3

\* model time steps the debounce timer needs to run from its load value to zero
WindowTicks == (DEBOUNCE_LOAD + TickUs - 1) \div TickUs

SinceFirstCap == WindowTicks + 1

\* settings_changed: pins whose interrupt is taken on the falling edge
limit_fei == Xor(limits_disable_pullup, limits_invert)

\* the x, y and z members of the value limitsGetState returns
LimitSignals == Xor(limit_pins, limits_invert)

\* bits of axes_signals_t.value that limitsGetState never writes: its local variable
\* has no initializer, so they are whatever the build left there
IndeterminateBits == {0, 8}

limitsGetState(unwritten) == LimitSignals + unwritten

\* driver_setup registers the raw handler whatever hal.driver_cap says
LimitHandler_AlwaysRaw(software_debounce_cap) == "limit_isr"

\* driver_setup: handler registered for the limit port
LimitHandler(software_debounce_cap) ==
    IF software_debounce_cap THEN "limit_isr_debounced" ELSE "limit_isr"

\* TimerLoadSet on a count-down timer: a running timer restarts from the new value
TimerLoadSet(t, value) == [t EXCEPT !.load = value, !.count = IF t.en THEN value ELSE @]

\* DEBOUNCE_TIMER configured as a periodic timer: it keeps running after a timeout
DebounceTimerCount_Periodic(t) ==
    IF ~t.en THEN t
    ELSE IF t.count > TickUs THEN [t EXCEPT !.count = @ - TickUs]
    ELSE [t EXCEPT !.count = t.load, !.ris = TRUE]

\* DEBOUNCE_TIMER (one-shot, timeout interrupt enabled) counting TickUs microseconds
DebounceTimerCount(t) ==
    IF ~t.en THEN t
    ELSE IF t.count > TickUs THEN [t EXCEPT !.count = @ - TickUs]
    ELSE [t EXCEPT !.en = FALSE, !.count = t.load, !.ris = TRUE]

\* a level change of limit pin p; the configured edge latches the pin's interrupt flag
LimitPinChange(p) ==
    LET level == 1 - Bit(limit_pins, p)
        latched == (level = 0) = (Bit(limit_fei, p) = 1)
        edge == latched /\ software_debounce
        start == edge /\ ~burst_active
    IN /\ limit_pins' = Xor(limit_pins, Pow2(p))
       /\ gpio_ris' = IF latched THEN gpio_ris \cup {p} ELSE gpio_ris
       /\ burst_active' = (burst_active \/ edge)
       /\ since_first' = IF start THEN 0 ELSE since_first
       /\ burst_ok' = IF start THEN TRUE
                      ELSE IF edge THEN burst_ok /\ since_first < WindowTicks
                      ELSE burst_ok
       /\ burst_edges' = IF start THEN 1
                         ELSE IF edge THEN Min(burst_edges + 1, 3)
                         ELSE burst_edges
       /\ burst_pins' = IF start THEN {p}
                        ELSE IF edge THEN burst_pins \cup {p}
                        ELSE burst_pins
       /\ burst_notes' = IF start THEN 0 ELSE burst_notes
       /\ lev' = "pin"
       /\ notified' = FALSE
       /\ notified_state' = 0
       /\ UNCHANGED <<software_debounce, limit_handler, limits_invert, limits_disable_pullup,
                      probe_invert, probe_pin, probeState, debounce_timer>>
       /\ UNCHANGED <<pulseVars, spindleVars, dispatchVars, delayVars, nvicVars, otherVars>>

\* a level change of the probe pin (edge selected by probeConfigure)
ProbePinChange ==
    LET latched == probe_pin = probe_invert
    IN /\ probe_pin' = ~probe_pin
       /\ gpio_ris' = IF latched THEN gpio_ris \cup {ProbeBit} ELSE gpio_ris
       /\ lev' = "pin"
       /\ notified' = FALSE
       /\ notified_state' = 0
       /\ UNCHANGED <<software_debounce, limit_handler, limits_invert, limits_disable_pullup,
                      probe_invert, limit_pins, probeState, debounce_timer,
                      burst_active, since_first, burst_ok, burst_edges, burst_pins, burst_notes>>
       /\ UNCHANGED <<pulseVars, spindleVars, dispatchVars, delayVars, nvicVars, otherVars>>

limit_isr(iflags, unwritten) ==
    /\ IF iflags \cap AxisBits # {}
       THEN /\ notified' = TRUE
            /\ notified_state' = limitsGetState(unwritten)
            /\ UNCHANGED probeState
       ELSE /\ notified' = FALSE
            /\ probeState' = IF ProbeBit \in iflags THEN probe_invert ELSE probeState
            /\ notified_state' = 0
    /\ UNCHANGED debounce_timer

limit_isr_debounced(iflags) ==
    /\ IF iflags \cap AxisBits # {}
       THEN /\ debounce_timer' = TimerEnable(TimerLoadSet(debounce_timer, DEBOUNCE_LOAD))
            /\ UNCHANGED probeState
       ELSE /\ probeState' = IF ProbeBit \in iflags THEN probe_invert ELSE probeState
            /\ UNCHANGED debounce_timer
    /\ notified' = FALSE
    /\ notified_state' = 0

\* interrupt of the limit port: the registered handler reads and clears the flags
LimitPortIsr ==
    /\ gpio_ris # {}
    /\ gpio_ris' = {}
    /\ IF limit_handler = "limit_isr"
       THEN \E unwritten \in IndeterminateBits : limit_isr(gpio_ris, unwritten)
       ELSE limit_isr_debounced(gpio_ris)
    /\ lev' = limit_handler
    /\ UNCHANGED <<software_debounce, limit_handler, limits_invert, limits_disable_pullup,
                   probe_invert, limit_pins, probe_pin,
                   burst_active, since_first, burst_ok, burst_edges, burst_pins, burst_notes>>
    /\ UNCHANGED <<pulseVars, spindleVars, dispatchVars, delayVars, nvicVars, otherVars>>

\* timeout interrupt of DEBOUNCE_TIMER; the limit port interrupt has the higher priority
software_debounce_isr ==
    \E unwritten \in IndeterminateBits :
    LET state == limitsGetState(unwritten)
    IN /\ debounce_timer.ris
       /\ gpio_ris = {}
       /\ debounce_timer' = [debounce_timer EXCEPT !.ris = FALSE]
       /\ notified' = (state # 0)
       /\ notified_state' = state
       /\ burst_notes' = IF state # 0 THEN Min(burst_notes + 1, 2) ELSE burst_notes
       /\ burst_active' = debounce_timer.en
       /\ lev' = "software_debounce_isr"
       /\ UNCHANGED <<software_debounce, limit_handler, limits_invert, limits_disable_pullup,
                      probe_invert, limit_pins, probe_pin, probeState, gpio_ris,
                      since_first, burst_ok, burst_edges, burst_pins>>
       /\ UNCHANGED <<pulseVars, spindleVars, dispatchVars, delayVars, nvicVars, otherVars>>

\* TickUs microseconds pass with no interrupt pending
DebounceTick ==
    /\ gpio_ris = {}
    /\ ~debounce_timer.ris
    /\ debounce_timer' = DebounceTimerCount(debounce_timer)
    /\ since_first' = IF burst_active THEN Min(since_first + 1, SinceFirstCap) ELSE since_first
    /\ lev' = "tick"
    /\ notified' = FALSE
    /\ notified_state' = 0
    /\ UNCHANGED <<software_debounce, limit_handler, limits_invert, limits_disable_pullup,
                   probe_invert, limit_pins, probe_pin, probeState, gpio_ris,
                   burst_active, burst_ok, burst_edges, burst_pins, burst_notes>>
    /\ UNCHANGED <<pulseVars, spindleVars, dispatchVars, delayVars, nvicVars, otherVars>>

\* after driver_setup, settings_changed and probeConfigure: inputs released, nothing pending
DebounceInit ==
    /\ software_debounce \in BOOLEAN
    /\ limit_handler = LimitHandler(software_debounce)
    /\ limits_invert \in LimitsInvertMasks
    /\ limits_disable_pullup \in DisablePullupMasks
    /\ probe_invert \in BOOLEAN
    /\ limit_pins = limits_invert
    /\ probe_pin = FALSE
    /\ probeState = probe_invert
    /\ gpio_ris = {}
    /\ debounce_timer = [en |-> FALSE, count |-> DEBOUNCE_LOAD, load |-> DEBOUNCE_LOAD,
                         ris |-> FALSE]
    /\ lev = "init"
    /\ notified = FALSE
    /\ notified_state = 0
    /\ burst_active = FALSE
    /\ since_first = 0
    /\ burst_ok = TRUE
    /\ burst_edges = 0
    /\ burst_pins = {}
    /\ burst_notes = 0

\* the limit inputs held still
InputQuiet ==
    /\ software_debounce = TRUE
    /\ limit_handler = LimitHandler(software_debounce)
    /\ limits_invert = 0
    /\ limits_disable_pullup = 0
    /\ probe_invert = FALSE
    /\ limit_pins = 0
    /\ probe_pin = FALSE
    /\ probeState = FALSE
    /\ gpio_ris = {}
    /\ debounce_timer = [en |-> FALSE, count |-> DEBOUNCE_LOAD, load |-> DEBOUNCE_LOAD,
                         ris |-> FALSE]
    /\ lev = "init"
    /\ notified = FALSE
    /\ notified_state = 0
    /\ burst_active = FALSE
    /\ since_first = 0
    /\ burst_ok = TRUE
    /\ burst_edges = 0
    /\ burst_pins = {}
    /\ burst_notes = 0

DebounceNext ==
    \/ \E p \in SwitchedPins : LimitPinChange(p)
    \/ ProbePinChange
    \/ LimitPortIsr
    \/ software_debounce_isr
    \/ DebounceTick

\* ------------------------------------------------- control inputs and probe

\* control_signals_t bits: 0 reset, 1 feed_hold, 2 cycle_start, 3 safety_door_ajar
ControlBits == {0, 1, 2, 3}

\* control pins with a switch that moves (feed hold and cycle start stay released)
SwitchedControlPins == {0, 3}

\* settings sampled for the control inputs: <<control_invert, control_disable_pullup>>
ControlSettings == {<<0, 0>>, <<9, 8>>}

ControlBit(v, i) == (v \div 2^i) % 2

\* the C operator ^ on control signal sets
XorControl(a, b) ==
    ((ControlBit(a, 0) + ControlBit(b, 0)) % 2)
  + ((ControlBit(a, 1) + ControlBit(b, 1)) % 2) * 2
  + ((ControlBit(a, 2) + ControlBit(b, 2)) % 2) * 4
  + ((ControlBit(a, 3) + ControlBit(b, 3)) % 2) * 8

\* settings_changed: control pins whose interrupt is taken on the falling edge
control_fei == XorControl(control_disable_pullup, control_invert)

systemGetState == XorControl(control_pins, control_invert)

\* probeGetState reads the pin
probeGetState == probe_pin # probe_invert

\* a level change of control pin p; the configured edge latches the pin's interrupt flag
ControlPinChange(p) ==
    LET level == 1 - ControlBit(control_pins, p)
        latched == (level = 0) = (ControlBit(control_fei, p) = 1)
    IN /\ control_pins' = XorControl(control_pins, 2^p)
       /\ control_ris' = IF latched THEN control_ris \cup {p} ELSE control_ris
       /\ control_state' = <<>>
       /\ UNCHANGED <<control_invert, control_disable_pullup, probe_result>>
       /\ UNCHANGED <<pulseVars, spindleVars, inputVars, delayVars, nvicVars, otherVars>>

\* interrupt of the control port
control_isr ==
    /\ control_ris # {}
    /\ control_ris' = {}
    /\ control_state' = <<systemGetState>>
    /\ UNCHANGED <<control_invert, control_disable_pullup, control_pins, probe_result>>
    /\ UNCHANGED <<pulseVars, spindleVars, inputVars, delayVars, nvicVars, otherVars>>

\* probeConfigure; != binds tighter than ^ in its last statement, and the pin reads
\* as the PROBE_PIN mask, so probeState is set whenever the pin is high
probeConfigure(invert_probe_pin, is_probe_away) ==
    LET invert == (~invert_probe_pin) # is_probe_away
    IN /\ probe_invert' = invert
       /\ probeState' = (probe_pin \/ invert)
       /\ lev' = "probeConfigure"
       /\ notified' = FALSE
       /\ notified_state' = 0
       /\ UNCHANGED <<software_debounce, limit_handler, limits_invert, limits_disable_pullup,
                      limit_pins, probe_pin, gpio_ris, debounce_timer,
                      burst_active, since_first, burst_ok, burst_edges, burst_pins, burst_notes>>
       /\ UNCHANGED <<pulseVars, spindleVars, dispatchVars, delayVars, nvicVars, otherVars>>

\* a synchronous probe query from the main context
ProbeQuery ==
    /\ probe_result' = <<probeGetState>>
    /\ lev' = "probeGetState"
    /\ notified' = FALSE
    /\ notified_state' = 0
    /\ UNCHANGED <<software_debounce, limit_handler, limits_invert, limits_disable_pullup,
                   probe_invert, probeState, limit_pins, probe_pin, gpio_ris, debounce_timer,
                   burst_active, since_first, burst_ok, burst_edges, burst_pins, burst_notes>>
    /\ UNCHANGED <<control_invert, control_disable_pullup, control_pins, control_ris,
                   control_state>>
    /\ UNCHANGED <<pulseVars, spindleVars, delayVars, nvicVars, otherVars>>

\* after driver_setup and settings_changed: control inputs released, nothing pending
DispatchInit ==
    /\ \E setting \in ControlSettings :
          /\ control_invert = setting[1]
          /\ control_disable_pullup = setting[2]
    /\ control_pins = control_invert
    /\ control_ris = {}
    /\ control_state = <<>>
    /\ probe_result = <<>>

\* the control inputs held still
DispatchQuiet ==
    /\ control_invert = 0
    /\ control_disable_pullup = 0
    /\ control_pins = 0
    /\ control_ris = {}
    /\ control_state = <<>>
    /\ probe_result = <<>>

\* limit inputs as DebounceInit leaves them, with the raw handler registered and the
\* pull-ups enabled
RawLimitInit ==
    /\ DebounceInit
    /\ ~software_debounce
    /\ limits_disable_pullup = 0

DispatchNext ==
    \/ \E p \in SwitchedPins : LimitPinChange(p)
    \/ ProbePinChange
    \/ LimitPortIsr
    \/ \E p \in SwitchedControlPins : ControlPinChange(p)
    \/ control_isr
    \/ \E invert_probe_pin, is_probe_away \in BOOLEAN :
          probeConfigure(invert_probe_pin, is_probe_away)
    \/ ProbeQuery

\* ------------------------------------- spindle_set_speed, statement by statement

\* positions of the main context inside spindle_set_speed (PWM_RAMPED): the statement
\* it executes next
SetSpeedPcs == {"off_target", "off_step", "off_delay", "off_cfg", "off_enable",
                "on_test", "on_pin", "on_flag", "on_seed", "on_delay", "on_match",
                "on_load", "on_timer", "on_target", "on_step", "on_cfg", "on_level",
                "on_enable", "ss_return"}

\* the statements with both SysTickEnable calls left out
SetSpeedStmt_NoSysTickEnable(pc, s, pwm_value) ==
    CASE pc = "off_target" -> [s EXCEPT !.pwm_ramp.pwm_target = 0]
      [] pc = "off_step"   -> [s EXCEPT !.pwm_ramp.pwm_step = -SPINDLE_RAMP_STEP_INCR]
      [] pc = "off_delay"  -> [s EXCEPT !.pwm_ramp.ms_delay = 0]
      [] pc = "off_cfg"    -> [s EXCEPT !.pwm_ramp.ms_cfg = SPINDLE_RAMP_STEP_TIME]
      [] pc = "off_enable" -> s
      [] pc = "on_test"    -> s
      [] pc = "on_pin"     -> spindle_on(s)
      [] pc = "on_flag"    -> [s EXCEPT !.pwmEnabled = TRUE]
      [] pc = "on_seed"    -> [s EXCEPT !.pwm_ramp.pwm_current = PwmMin]
      [] pc = "on_delay"   -> [s EXCEPT !.pwm_ramp.ms_delay = 0]
      [] pc = "on_match"   -> [s EXCEPT !.pwm_timer.match =
                                            PwmPeriod - s.pwm_ramp.pwm_current + 15]
      [] pc = "on_load"    -> [s EXCEPT !.pwm_timer.load = PwmPeriod]
      [] pc = "on_timer"   -> [s EXCEPT !.pwm_timer.en = TRUE]
      [] pc = "on_target"  -> [s EXCEPT !.pwm_ramp.pwm_target = pwm_value]
      [] pc = "on_step"    -> [s EXCEPT !.pwm_ramp.pwm_step =
                                            IF s.pwm_ramp.pwm_target < s.pwm_ramp.pwm_current
                                            THEN -SPINDLE_RAMP_STEP_INCR
                                            ELSE SPINDLE_RAMP_STEP_INCR]
      [] pc = "on_cfg"     -> [s EXCEPT !.pwm_ramp.ms_cfg = SPINDLE_RAMP_STEP_TIME]
      [] pc = "on_level"   -> [s EXCEPT !.pwm_timer.level = FALSE]
      [] pc = "on_enable"  -> s
      [] OTHER             -> s

\* the effect of the statement at pc
SetSpeedStmt(pc, s, pwm_value) ==
    CASE pc = "off_target" -> [s EXCEPT !.pwm_ramp.pwm_target = 0]
      [] pc = "off_step"   -> [s EXCEPT !.pwm_ramp.pwm_step = -SPINDLE_RAMP_STEP_INCR]
      [] pc = "off_delay"  -> [s EXCEPT !.pwm_ramp.ms_delay = 0]
      [] pc = "off_cfg"    -> [s EXCEPT !.pwm_ramp.ms_cfg = SPINDLE_RAMP_STEP_TIME]
      [] pc = "off_enable" -> [s EXCEPT !.systick_en = TRUE]
      [] pc = "on_test"    -> s
      [] pc = "on_pin"     -> spindle_on(s)
      [] pc = "on_flag"    -> [s EXCEPT !.pwmEnabled = TRUE]
      [] pc = "on_seed"    -> [s EXCEPT !.pwm_ramp.pwm_current = PwmMin]
      [] pc = "on_delay"   -> [s EXCEPT !.pwm_ramp.ms_delay = 0]
      [] pc = "on_match"   -> [s EXCEPT !.pwm_timer.match =
                                            PwmPeriod - s.pwm_ramp.pwm_current + 15]
      [] pc = "on_load"    -> [s EXCEPT !.pwm_timer.load = PwmPeriod]
      [] pc = "on_timer"   -> [s EXCEPT !.pwm_timer.en = TRUE]
      [] pc = "on_target"  -> [s EXCEPT !.pwm_ramp.pwm_target = pwm_value]
      [] pc = "on_step"    -> [s EXCEPT !.pwm_ramp.pwm_step =
                                            IF s.pwm_ramp.pwm_target < s.pwm_ramp.pwm_current
                                            THEN -SPINDLE_RAMP_STEP_INCR
                                            ELSE SPINDLE_RAMP_STEP_INCR]
      [] pc = "on_cfg"     -> [s EXCEPT !.pwm_ramp.ms_cfg = SPINDLE_RAMP_STEP_TIME]
      [] pc = "on_level"   -> [s EXCEPT !.pwm_timer.level = FALSE]
      [] pc = "on_enable"  -> [s EXCEPT !.systick_en = TRUE]
      [] OTHER             -> s

\* the statement that follows the one at pc
SetSpeedSucc(pc, s) ==
    CASE pc = "off_target" -> "off_step"
      [] pc = "off_step"   -> "off_delay"
      [] pc = "off_delay"  -> "off_cfg"
      [] pc = "off_cfg"    -> "off_enable"
      [] pc = "off_enable" -> "ss_return"
      [] pc = "on_test"    -> IF ~s.pwmEnabled THEN "on_pin" ELSE "on_target"
      [] pc = "on_pin"     -> "on_flag"
      [] pc = "on_flag"    -> "on_seed"
      [] pc = "on_seed"    -> "on_delay"
      [] pc = "on_delay"   -> "on_match"
      [] pc = "on_match"   -> "on_load"
      [] pc = "on_load"    -> "on_timer"
      [] pc = "on_timer"   -> "on_target"
      [] pc = "on_target"  -> "on_step"
      [] pc = "on_step"    -> "on_cfg"
      [] pc = "on_cfg"     -> "on_level"
      [] pc = "on_level"   -> "on_enable"
      [] pc = "on_enable"  -> "ss_return"
      [] OTHER             -> "idle"

\* frame of the steps of a spindle_set_speed call
SetSpeedFrame ==
    /\ UNCHANGED <<PWM_RAMPED, off_value, always_on, disable_with_zero_speed, spindle_invert,
                   spindle_ready, off_run, off_snap>>
    /\ UNCHANGED <<req, entry, req_ticks, req_calls, raced, IOInitDone>>
    /\ UNCHANGED <<pulseVars, inputVars, dispatchVars, nvicVars>>
    /\ UNCHANGED <<ppiVars, settingVars, atomicVars, queryVars, tickVars, outmapVars>>

\* the main context enters spindle_set_speed (PWM_RAMPED) and tests pwm_value
SetSpeedEnter(pwm_value) ==
    /\ PWM_RAMPED
    /\ spindle_ready
    /\ main_pc = "idle"
    /\ main_pc' = IF pwm_value = off_value THEN "off_target" ELSE "on_test"
    /\ set_speed_arg' = pwm_value
    /\ sev' = "set_speed_entry"
    /\ UNCHANGED <<pwm_ramp, pwmEnabled, spindle_enable_pin, spindle_direction_pin,
                   pwm_timer, systick_en, delay, ramp_c0, ramp_steps, since_step>>
    /\ SetSpeedFrame

\* the main context executes one statement of spindle_set_speed, or returns from it
SetSpeedStep ==
    /\ main_pc \in SetSpeedPcs
    /\ ApplySpindle(SetSpeedStmt(main_pc, SpindleState, set_speed_arg))
    /\ main_pc' = SetSpeedSucc(main_pc, SpindleState)
    /\ sev' = IF main_pc = "ss_return" THEN "set_speed" ELSE "set_speed_stmt"
    /\ ramp_c0' = IF main_pc = "ss_return" THEN pwm_ramp.pwm_current ELSE ramp_c0
    /\ ramp_steps' = IF main_pc = "ss_return" THEN 0 ELSE ramp_steps
    /\ since_step' = IF main_pc = "ss_return" THEN 0 ELSE since_step
    /\ UNCHANGED set_speed_arg
    /\ SetSpeedFrame

\* spindle_set_speed calls of a ramped build with the 1 ms tick arriving between any
\* two of their statements
RaceSpeeds == {off_value, PwmMin, PwmMax}

RaceNext ==
    \/ SpindleBoot
    \/ \E v \in RaceSpeeds : SetSpeedEnter(v)
    \/ SetSpeedStep
    \/ SysTick

\* ------------------------------------------------------- laser PPI mode

\* largest steps_per_pulse the model draws
MaxStepsPerPulse == 2

\* laser.pulse_length (us) and the time one count of the model's PPI timer stands for
LASER_PULSE_LENGTH == 1500
PpiTickUs == 500

\* load value of LASER_PPI_TIMER in model counts
PpiLoad == (LASER_PULSE_LENGTH + PpiTickUs - 1) \div PpiTickUs

\* saturation of ppi_steps
PpiStepsCap == MaxStepsPerPulse + 2

\* laser_ppi_mode: selects the pulse start operation (gc_set_laser_ppimode is upstream)
laser_ppi_mode(on) ==
    /\ LASER_PPI
    /\ pulse_start' = IF on THEN "stepperPulseStartPPI"
                      ELSE IF pulse_delay_microseconds # 0
                           THEN "stepperPulseStartDelayed" ELSE "stepperPulseStart"
    /\ pev' = "ppi_mode"
    /\ UNCHANGED <<pulse_microseconds, pulse_delay_microseconds, step_invert, dir_invert,
                   stepper, step_port, dir_port, next_step_outbits, pulse_timer,
                   pulse_handler, cmd_nb, cmd_armed, dir_written, since_cmd, spaced_ok,
                   edge_balance, width, last_width, stepper_timer_en, idle_cleared>>
    /\ UNCHANGED <<spindleVars, inputVars, dispatchVars, delayVars, nvicVars, otherVars>>

\* stepperPulseStartPPI, laser part: the block's steps_per_pulse is taken over on a new
\* block, a changed PWM value is applied and restarts the count, a zero count starts a
\* laser pulse and reloads, any other count is decremented
PpiLaser(st, spindle_pwm, steps_per_pulse) ==
    LET l1 == IF st.new_block
              THEN [next_pulse |->
                        IF laser.next_pulse # 0 /\ laser.steps_per_pulse # 0
                        THEN (laser.next_pulse * steps_per_pulse) \div laser.steps_per_pulse
                        ELSE laser.next_pulse,
                    steps_per_pulse |-> steps_per_pulse]
              ELSE laser
        changed == st.step_outbits # 0 /\ spindle_pwm # current_pwm
        cur == IF changed THEN spindle_pwm ELSE current_pwm
        l2 == IF changed THEN [l1 EXCEPT !.next_pulse = 0] ELSE l1
        fire == st.step_outbits # 0 /\ l2.next_pulse = 0
    IN [laser |-> IF st.step_outbits = 0 THEN l1
                  ELSE IF fire THEN [l2 EXCEPT !.next_pulse = l2.steps_per_pulse]
                  ELSE [l2 EXCEPT !.next_pulse = @ - 1],
        current_pwm |-> cur,
        set_speed |-> changed,
        fire |-> fire,
        on |-> fire /\ cur # off_value]

\* stepper_driver_isr in PPI mode: hal.stepper_pulse_start is stepperPulseStartPPI, whose
\* step and direction part is that of stepperPulseStart. The block's spindle_pwm and
\* steps_per_pulse are the executor's; the first step command begins a block.
PpiDriverIsr(newblk, step, spindle_pwm, steps_per_pulse) ==
    /\ stepper_timer_en
    /\ spindle_ready
    /\ main_pc = "idle"
    /\ pulse_start = "stepperPulseStartPPI"
    /\ ~PulseIntPending
    /\ newblk \/ laser.steps_per_pulse # 0
    /\ LET st == [new_block   |-> IF newblk THEN TRUE ELSE stepper.new_block,
                  dir_outbits |-> stepper.dir_outbits,
                  step_outbits |-> step]
           r == PpiLaser(st, spindle_pwm, steps_per_pulse)
           s1 == IF r.set_speed THEN spindle_set_speed(SpindleState, spindle_pwm)
                 ELSE SpindleState
           s2 == IF r.on THEN spindle_on(s1) ELSE s1
       IN /\ cmd_nb' = st.new_block
          /\ stepperPulseStart(st)
          /\ laser' = r.laser
          /\ current_pwm' = r.current_pwm
          /\ ppi_timer' = IF r.on THEN TimerEnable(ppi_timer) ELSE ppi_timer
          /\ ApplySpindle(s2)
          /\ sev' = IF r.set_speed THEN "set_speed" ELSE sev
          /\ ramp_c0' = IF r.set_speed THEN pwm_ramp'.pwm_current ELSE ramp_c0
          /\ ramp_steps' = IF r.set_speed THEN 0 ELSE ramp_steps
          /\ since_step' = IF r.set_speed THEN 0 ELSE since_step
          /\ ppi_gap' = IF r.on /\ ppi_steps # -1 THEN Min(PpiStepsCap, ppi_steps + 1)
                        ELSE ppi_gap
          /\ ppi_steps' = IF r.on THEN 0
                          ELSE IF step = 0 \/ ppi_steps = -1 THEN ppi_steps
                          ELSE Min(PpiStepsCap, ppi_steps + 1)
    /\ pev' = "start"
    /\ spaced_ok' = (spaced_ok /\ since_cmd > pulse_microseconds + pulse_delay_microseconds)
    /\ since_cmd' = 0
    /\ idle_cleared' = FALSE
    /\ UNCHANGED <<pulse_microseconds, pulse_delay_microseconds, step_invert, dir_invert,
                   pulse_handler, pulse_start, last_width, stepper_timer_en>>
    /\ UNCHANGED <<PWM_RAMPED, off_value, always_on, disable_with_zero_speed, spindle_invert,
                   spindle_ready, off_run, off_snap>>
    /\ UNCHANGED <<LASER_PPI>>
    /\ UNCHANGED <<inputVars, dispatchVars, delayVars, nvicVars, setupVars, settingVars, atomicVars, queryVars, tickVars, outmapVars>>

\* one count of the one-shot LASER_PPI_TIMER; its match value is never reached by a
\* count-down from the load value, so only the time-out is raised
PpiTimerTick ==
    /\ ppi_timer.en
    /\ ppi_timer' = IF ppi_timer.count = 0
                    THEN [ppi_timer EXCEPT !.en = FALSE, !.count = ppi_timer.load,
                                           !.ris = TRUE]
                    ELSE [ppi_timer EXCEPT !.count = @ - 1]
    /\ UNCHANGED <<laser, current_pwm, ppi_steps, ppi_gap, LASER_PPI>>
    /\ UNCHANGED <<pulseVars, spindleVars, inputVars, dispatchVars, delayVars, nvicVars, setupVars, settingVars, atomicVars, queryVars, tickVars, outmapVars>>

\* ppi_timeout_isr: ends the laser pulse
ppi_timeout_isr ==
    /\ ppi_timer.ris
    /\ main_pc = "idle"
    /\ ppi_timer' = [ppi_timer EXCEPT !.ris = FALSE]
    /\ ApplySpindle(spindle_off(SpindleState))
    /\ sev' = "ppi_timeout"
    /\ UNCHANGED <<PWM_RAMPED, off_value, always_on, disable_with_zero_speed, spindle_invert,
                   spindle_ready, ramp_c0, ramp_steps, since_step, off_run, off_snap>>
    /\ UNCHANGED <<laser, current_pwm, ppi_steps, ppi_gap, LASER_PPI>>
    /\ UNCHANGED <<pulseVars, inputVars, dispatchVars, delayVars, nvicVars, setupVars, settingVars, atomicVars, queryVars, tickVars, outmapVars>>

\* static initialisers and the PPI timer as driver_setup configures it
PpiInit ==
    /\ LASER_PPI = TRUE
    /\ laser = [next_pulse |-> 0, steps_per_pulse |-> 0]
    /\ current_pwm = 0
    /\ ppi_timer = [en |-> FALSE, count |-> PpiLoad, load |-> PpiLoad, ris |-> FALSE]
    /\ ppi_steps = -1
    /\ ppi_gap = 0

\* a build without LASER_PPI
PpiQuiet ==
    /\ LASER_PPI = FALSE
    /\ laser = [next_pulse |-> 0, steps_per_pulse |-> 0]
    /\ current_pwm = 0
    /\ ppi_timer = [en |-> FALSE, count |-> 0, load |-> 0, ris |-> FALSE]
    /\ ppi_steps = -1
    /\ ppi_gap = 0

\* PPI mode entered once, then step commands of one pattern with one PWM value and one
\* steps_per_pulse
PpiNext ==
    \/ SpindleBoot
    \/ pulse_start # "stepperPulseStartPPI" /\ laser_ppi_mode(TRUE)
    \/ \E newblk \in BOOLEAN, step \in {0, 1}, n \in 1..MaxStepsPerPulse :
          /\ laser.steps_per_pulse \in {0, n}
          /\ PpiDriverIsr(newblk, step, PwmMax, n)
    \/ PulseTimerIsr
    \/ PulseTimerTick
    \/ PpiTimerTick
    \/ ppi_timeout_isr
    \/ SysTick

\* ------------------------------------------------------- interrupt latency

\* one count of the pulse timer while its interrupt is pending and not yet serviced:
\* the handler is held off by a section run under IntMasterDisable or by the limit
\* port's handler, which runs at the pulse timer's priority
PulseTimerTickLate ==
    /\ PulseIntPending
    /\ pulse_timer.en
    /\ pulse_timer' = PulseTimerCount(pulse_timer)
    /\ since_cmd' = Min(SinceCap, since_cmd + 1)
    /\ width' = IF StepAsserted # 0 THEN Min(SinceCap + 1, width + 1) ELSE width
    /\ pev' = "tick"
    /\ UNCHANGED <<pulse_microseconds, pulse_delay_microseconds, step_invert, dir_invert,
                   stepper, step_port, dir_port, next_step_outbits, pulse_handler,
                   pulse_start, cmd_nb, cmd_armed, dir_written, spaced_ok, edge_balance,
                   last_width, stepper_timer_en, idle_cleared>>
    /\ UNCHANGED <<spindleVars, inputVars, dispatchVars, delayVars, nvicVars, otherVars>>

\* step pulses of one pattern with the pulse interrupt serviced late
LatencyNext ==
    \/ \E newblk \in BOOLEAN : StepperDriverIsr(newblk, 0, 1)
    \/ PulseTimerIsr
    \/ PulseTimerTick
    \/ PulseTimerTickLate

\* ------------------------------------------------------- settings_changed

\* the pulse timer and the pulse start after settings_changed's pulse part, which
\* forgets hal.stepper_pulse_start
PulseReconfigure_KeepStart(pw, pd) ==
    LET c == PulseTimerConfig(pw, pd)
    IN [handler |-> c.handler,
        timer   |-> [pulse_timer EXCEPT
                       !.match = IF pd # 0 THEN c.match ELSE @,
                       !.load  = c.load,
                       !.count = c.load,
                       !.imask = @ \cup c.imask],
        start   |-> pulse_start]

\* the pulse timer and the pulse start after settings_changed's pulse part:
\* TimerIntRegister, TimerMatchSet (delayed only), TimerLoadSet, TimerIntEnable (which
\* adds interrupt sources and removes none), hal.stepper_pulse_start
PulseReconfigure(pw, pd) ==
    LET c == PulseTimerConfig(pw, pd)
    IN [handler |-> c.handler,
        timer   |-> [pulse_timer EXCEPT
                       !.match = IF pd # 0 THEN c.match ELSE @,
                       !.load  = c.load,
                       !.count = c.load,
                       !.imask = @ \cup c.imask],
        start   |-> c.start]

\* settings_changed called by the core with its settings, whose pulse width, pulse
\* delay and laser mode flag may have changed; nothing is configured before IOInitDone.
\* The other settings are as before, so the pins are configured as they were; pending
\* control interrupts are cleared and the PWM timer is reloaded with the period.
settings_changed(pw, pd, laser_mode) ==
    /\ ~PulseIntPending
    /\ main_pc = "idle"
    /\ pulse_microseconds' = pw
    /\ pulse_delay_microseconds' = pd
    /\ pev' = "settings_changed"
    /\ IF IOInitDone
       THEN LET r == PulseReconfigure(pw, pd)
            IN /\ pulse_handler' = r.handler
               /\ pulse_timer' = r.timer
               /\ pulse_start' = IF LASER_PPI /\ ~laser_mode
                                 THEN (IF pd # 0 THEN "stepperPulseStartDelayed"
                                       ELSE "stepperPulseStart")
                                 ELSE r.start
               /\ pwm_timer' = [pwm_timer EXCEPT !.load = PwmPeriod]
               /\ control_ris' = {}
       ELSE UNCHANGED <<pulse_handler, pulse_timer, pulse_start, pwm_timer, control_ris>>
    /\ UNCHANGED <<step_invert, dir_invert, stepper, step_port, dir_port, next_step_outbits,
                   cmd_nb, cmd_armed, dir_written, since_cmd, spaced_ok, edge_balance,
                   width, last_width, stepper_timer_en, idle_cleared>>
    /\ UNCHANGED <<PWM_RAMPED, off_value, always_on, disable_with_zero_speed, spindle_invert,
                   spindle_ready, pwm_ramp, pwmEnabled, spindle_enable_pin,
                   spindle_direction_pin, systick_en, delay, sev, ramp_c0, ramp_steps,
                   since_step, off_run, off_snap>>
    /\ UNCHANGED <<control_invert, control_disable_pullup, control_pins, control_state,
                   probe_result>>
    /\ UNCHANGED <<inputVars, delayVars, nvicVars, otherVars>>

\* the state driver_setup leaves: with IOInitDone its settings_changed call has
\* configured the pulse timer, without it only driver_init's pulse start is installed
SettingsInit ==
    /\ IOInitDone \in BOOLEAN
    /\ set_speed_arg = 0
    /\ pulse_microseconds \in {1, MaxPulse}
    /\ pulse_delay_microseconds \in 0..MaxDelay
    /\ step_invert = 0
    /\ dir_invert = 0
    /\ stepper = [new_block |-> FALSE, dir_outbits |-> 0, step_outbits |-> 0]
    /\ step_port = set_step_outputs(0)
    /\ dir_port = set_dir_outputs(0)
    /\ next_step_outbits = 0
    /\ LET c == PulseTimerConfig(pulse_microseconds, pulse_delay_microseconds)
       IN IF IOInitDone
          THEN /\ pulse_timer = [en |-> FALSE, count |-> c.load, load |-> c.load,
                                 match |-> c.match, imask |-> c.imask, ris |-> {}]
               /\ pulse_handler = c.handler
               /\ pulse_start = c.start
          ELSE /\ pulse_timer = [en |-> FALSE, count |-> 0, load |-> 0,
                                 match |-> -1, imask |-> {}, ris |-> {}]
               /\ pulse_handler = "none"
               /\ pulse_start = "stepperPulseStart"
    /\ pev = "init"
    /\ cmd_nb = FALSE
    /\ cmd_armed = FALSE
    /\ dir_written = FALSE
    /\ since_cmd = SinceCap
    /\ spaced_ok = TRUE
    /\ edge_balance = 0
    /\ width = 0
    /\ last_width = 0
    /\ stepper_timer_en = TRUE
    /\ idle_cleared = FALSE

\* changes of the pulse delay and of the laser mode between step pulses of one pattern,
\* in a build with or without LASER_PPI; step commands are issued once I/O is initialised
SettingsNext ==
    \/ \E pd \in 0..MaxDelay, laser_mode \in BOOLEAN :
          settings_changed(pulse_microseconds, pd, laser_mode)
    \/ \E on \in BOOLEAN : laser_ppi_mode(on)
    \/ \E newblk \in BOOLEAN :
          /\ IOInitDone
          /\ pulse_start # "stepperPulseStartPPI"
          /\ StepperDriverIsr(newblk, 0, 1)
    \/ PulseTimerIsr
    \/ PulseTimerTick

\* ------------------------------------------------------- driver settings

\* largest value of the driver settings block the model draws
MaxSetting == 3

SettingValues == 0..MaxSetting

\* status codes the setting handlers return
Statuses == {"Status_OK", "Status_Unhandled", "Status_InvalidStatement"}

\* status after the enabled handlers were consulted in order; "none" marks a handler
\* that was not called
SettingStatus(keypad, trinamic) ==
    LET status0 == "Status_Unhandled"
        status1 == IF keypad # "none" THEN keypad ELSE status0
    IN IF trinamic # "none" THEN trinamic ELSE status1

\* driver_setting that stores the block whatever the status
driver_setting_AlwaysStore(keypad, trinamic, written) ==
    /\ handler_results' = <<keypad, trinamic>>
    /\ driver_settings' = written
    /\ setting_status' = <<SettingStatus(keypad, trinamic)>>
    /\ eeprom_driver_area' = driver_settings'

\* driver_setting: keypad_setting, then trinamic_setting if still unhandled; the block
\* is copied to the EEPROM on Status_OK. A handler that was called may have written
\* driver_settings in RAM.
driver_setting(keypad, trinamic, written) ==
    /\ handler_results' = <<keypad, trinamic>>
    /\ driver_settings' = written
    /\ setting_status' = <<SettingStatus(keypad, trinamic)>>
    /\ eeprom_driver_area' = IF SettingStatus(keypad, trinamic) = "Status_OK"
                             THEN driver_settings' ELSE eeprom_driver_area

\* a call of hal.driver_setting: the results the handlers give for the parameter and
\* value, and what they leave in driver_settings
DriverSetting ==
    \E keypad \in Statuses \cup {"none"}, trinamic \in Statuses \cup {"none"},
       written \in SettingValues :
       /\ (keypad # "none") = KEYPAD_ENABLE
       /\ (trinamic # "none") = (TRINAMIC_ENABLE /\ (~KEYPAD_ENABLE \/ keypad = "Status_Unhandled"))
       /\ (keypad = "none" /\ trinamic = "none") => written = driver_settings
       /\ driver_setting(keypad, trinamic, written)
       /\ UNCHANGED <<KEYPAD_ENABLE, TRINAMIC_ENABLE>>
       /\ UNCHANGED <<pulseVars, spindleVars, inputVars, dispatchVars, delayVars, nvicVars>>
       /\ UNCHANGED <<ppiVars, setupVars, atomicVars, queryVars, tickVars, outmapVars>>

\* the block as loaded from the EEPROM
SettingInit ==
    /\ KEYPAD_ENABLE \in BOOLEAN
    /\ TRINAMIC_ENABLE \in BOOLEAN
    /\ driver_settings \in SettingValues
    /\ eeprom_driver_area = driver_settings
    /\ setting_status = <<>>
    /\ handler_results = <<"none", "none">>

SettingQuiet ==
    /\ KEYPAD_ENABLE = FALSE
    /\ TRINAMIC_ENABLE = FALSE
    /\ driver_settings = 0
    /\ eeprom_driver_area = 0
    /\ setting_status = <<>>
    /\ handler_results = <<"none", "none">>

SettingNext == DriverSetting

\* ------------------------------------------------------- atomic helpers

\* bits of the word the model follows
WordBits == {0, 1, 2}

\* values of a word and of a bits argument
WordValues == SUBSET WordBits

AtomicFns == {"bitsSetAtomic", "bitsClearAtomic", "valueSetAtomic"}

\* the word after the helper's store, from the value it read
AtomicStore(fn, arg, old) ==
    IF fn = "bitsSetAtomic" THEN old \cup arg
    ELSE IF fn = "bitsClearAtomic" THEN old \ arg
    ELSE arg

\* frame of the atomic helpers' steps
AtomicFrame ==
    /\ UNCHANGED <<pulseVars, spindleVars, inputVars, dispatchVars, delayVars, nvicVars>>
    /\ UNCHANGED <<ppiVars, setupVars, settingVars, queryVars, tickVars, outmapVars>>

\* the main context calls one of the helpers
AtomicCall(fn, arg) ==
    /\ atomic_pc = "idle"
    /\ atomic_pc' = "disable"
    /\ atomic_op' = [fn |-> fn, arg |-> arg]
    /\ atomic_ret' = <<>>
    /\ UNCHANGED <<word, primask, atomic_tmp, shadow, before>>
    /\ AtomicFrame

\* the helpers without IntMasterDisable
IntMasterDisable_NoMask ==
    /\ atomic_pc = "disable"
    /\ atomic_pc' = "load"
    /\ primask' = FALSE
    /\ UNCHANGED <<word, atomic_op, atomic_tmp, atomic_ret, shadow, before>>
    /\ AtomicFrame

\* IntMasterDisable()
IntMasterDisable ==
    /\ atomic_pc = "disable"
    /\ atomic_pc' = "load"
    /\ primask' = TRUE
    /\ UNCHANGED <<word, atomic_op, atomic_tmp, atomic_ret, shadow, before>>
    /\ AtomicFrame

\* the load of *ptr (prev = *ptr, or the load of *ptr |= bits)
AtomicLoad ==
    /\ atomic_pc = "load"
    /\ atomic_pc' = "store"
    /\ atomic_tmp' = word
    /\ UNCHANGED <<word, primask, atomic_op, atomic_ret, shadow, before>>
    /\ AtomicFrame

\* the store to *ptr
AtomicStoreStep ==
    /\ atomic_pc = "store"
    /\ atomic_pc' = "enable"
    /\ word' = AtomicStore(atomic_op.fn, atomic_op.arg, atomic_tmp)
    /\ shadow' = AtomicStore(atomic_op.fn, atomic_op.arg, shadow)
    /\ before' = shadow
    /\ UNCHANGED <<primask, atomic_op, atomic_tmp, atomic_ret>>
    /\ AtomicFrame

\* IntMasterEnable()
IntMasterEnable ==
    /\ atomic_pc = "enable"
    /\ atomic_pc' = "return"
    /\ primask' = FALSE
    /\ UNCHANGED <<word, atomic_op, atomic_tmp, atomic_ret, shadow, before>>
    /\ AtomicFrame

\* return prev (bitsSetAtomic returns nothing)
AtomicReturn ==
    /\ atomic_pc = "return"
    /\ atomic_pc' = "idle"
    /\ atomic_ret' = IF atomic_op.fn = "bitsSetAtomic" THEN <<>> ELSE <<atomic_tmp>>
    /\ UNCHANGED <<word, primask, atomic_op, atomic_tmp, shadow, before>>
    /\ AtomicFrame

\* an interrupt handler that updates the same word; it is taken only with PRIMASK clear
\* and runs to its end before the main context goes on
WordIsr(set, bits) ==
    /\ ~primask
    /\ bits # {}
    /\ word' = IF set THEN word \cup bits ELSE word \ bits
    /\ shadow' = IF set THEN shadow \cup bits ELSE shadow \ bits
    /\ UNCHANGED <<primask, atomic_pc, atomic_op, atomic_tmp, atomic_ret, before>>
    /\ AtomicFrame

AtomicInit ==
    /\ word = {}
    /\ primask = FALSE
    /\ atomic_pc = "idle"
    /\ atomic_op = [fn |-> "bitsSetAtomic", arg |-> {}]
    /\ atomic_tmp = {}
    /\ atomic_ret = <<>>
    /\ shadow = {}
    /\ before = {}

AtomicQuiet == AtomicInit

AtomicNext ==
    \/ \E fn \in AtomicFns, arg \in WordValues : AtomicCall(fn, arg)
    \/ IntMasterDisable
    \/ AtomicLoad
    \/ AtomicStoreStep
    \/ IntMasterEnable
    \/ AtomicReturn
    \/ \E set \in BOOLEAN, bits \in WordValues : WordIsr(set, bits)

\* ------------------------------------------------------------ spindle state queries

\* spindleSetState: the enable and direction pins only
spindleSetState(s, on, ccw) ==
    IF ~on THEN spindle_off(s) ELSE spindle_on(spindle_dir(s, ccw))

\* state.value ^= settings.spindle.invert.mask
XorInvertMask(st) ==
    [st EXCEPT !.on = (st.on # spindle_invert.on),
               !.ccw = (st.ccw # spindle_invert.ccw),
               !.pwm = (st.pwm # spindle_invert.pwm)]

\* spindleGetState: the pin levels read, the mask applied, pwmEnabled or-ed into on,
\* the mask applied once more, then at_speed
spindleGetState(s) ==
    LET read    == [on |-> s.enable_pin, ccw |-> s.direction_pin, pwm |-> FALSE,
                    at_speed |-> FALSE]
        logical == XorInvertMask(read)
        forced  == IF s.pwmEnabled THEN [logical EXCEPT !.on = TRUE] ELSE logical
        again   == XorInvertMask(forced)
    IN  IF PWM_RAMPED
        THEN [again EXCEPT !.at_speed = (s.pwm_ramp.pwm_current = s.pwm_ramp.pwm_target)]
        ELSE again

\* what the spindle state calls leave alone
QueryFrame ==
    /\ UNCHANGED <<PWM_RAMPED, off_value, always_on, disable_with_zero_speed, spindle_invert,
                   spindle_ready, ramp_c0, ramp_steps, since_step, off_run, off_snap>>
    /\ UNCHANGED <<pulseVars, inputVars, dispatchVars, delayVars, nvicVars>>
    /\ UNCHANGED <<ppiVars, setupVars, settingVars, atomicVars, tickVars, outmapVars>>

\* hal.spindle_set_state while it is spindleSetState
SpindleSetStateFixed(on, ccw) ==
    /\ spindle_ready
    /\ main_pc = "idle"
    /\ ApplySpindle(spindleSetState(SpindleState, on, ccw))
    /\ sev' = "set_state_fixed"
    /\ state_req' = <<[on |-> on, ccw |-> ccw]>>
    /\ state_ret' = <<>>
    /\ QueryFrame

\* hal.spindle_get_state
SpindleGetState ==
    /\ spindle_ready
    /\ main_pc = "idle"
    /\ ApplySpindle(SpindleState)
    /\ sev' = "get_state"
    /\ state_ret' = <<spindleGetState(SpindleState)>>
    /\ UNCHANGED state_req
    /\ QueryFrame

\* states requested of spindleSetState: off, on clockwise, on counter-clockwise
RequestedStates == {<<FALSE, FALSE>>, <<TRUE, FALSE>>, <<TRUE, TRUE>>}

\* speeds commanded while the state is queried
QuerySpeeds == {off_value, PwmMax}

QueryQuiet == state_req = <<>> /\ state_ret = <<>>

QueryNext ==
    \/ SpindleBoot
    \/ \E v \in QuerySpeeds : SpindleSetSpeed(v)
    \/ \E r \in RequestedStates : SpindleSetStateFixed(r[1], r[2])
    \/ SpindleGetState
    \/ SysTick

\* ------------------------------------------------ tick handler, statement by statement

\* LASER_PPI build: stepper_driver_isr (priority 0x20) calls stepperPulseStartPPI and by
\* it spindle_set_speed; it preempts systick_isr (priority 0x40) between any two of its
\* statements. The ISRs of equal priority and the main context wait for its return.

TickPcs == {"t_count", "t_reset", "t_add", "t_sign", "t_clamp_dn", "t_zero", "t_stop",
            "t_clamp_up", "t_match", "t_test", "t_halt", "t_delay", "t_disable"}

\* the state after the statement at pc of systick_isr (PWM_RAMPED build); eq is the
\* result of the test at t_test
TickStmt(pc, s, eq) ==
    LET r == s.pwm_ramp
    IN CASE pc = "t_count"    -> IF r.ms_cfg # 0 THEN [s EXCEPT !.pwm_ramp.ms_delay = @ + 1]
                                 ELSE s
         [] pc = "t_reset"    -> [s EXCEPT !.pwm_ramp.ms_delay = 0]
         [] pc = "t_add"      -> [s EXCEPT !.pwm_ramp.pwm_current = @ + r.pwm_step]
         [] pc = "t_clamp_dn" -> IF r.pwm_current < r.pwm_target
                                 THEN [s EXCEPT !.pwm_ramp.pwm_current = r.pwm_target] ELSE s
         [] pc = "t_clamp_up" -> IF r.pwm_current > r.pwm_target
                                 THEN [s EXCEPT !.pwm_ramp.pwm_current = r.pwm_target] ELSE s
         [] pc = "t_stop"     ->
                [(IF disable_with_zero_speed THEN spindle_off(s) ELSE s) EXCEPT
                    !.pwm_timer = [@ EXCEPT !.load = PwmPeriod + 20000,
                                            !.en = FALSE,
                                            !.level = IF s.pwmEnabled THEN TRUE ELSE @],
                    !.pwmEnabled = FALSE]
         [] pc = "t_match"    -> [s EXCEPT !.pwm_timer.match = PwmPeriod - r.pwm_current]
         [] pc = "t_halt"     -> IF eq THEN [s EXCEPT !.pwm_ramp.ms_cfg = 0] ELSE s
         [] pc = "t_delay"    ->
                IF s.delay.ms # 0
                THEN [s EXCEPT !.delay = [ms |-> s.delay.ms - 1,
                                          callback |-> IF DelayFires(s.delay) THEN "NULL"
                                                       ELSE s.delay.callback]]
                ELSE s
         [] pc = "t_disable"  -> IF s.delay.ms = 0 /\ r.ms_cfg = 0
                                 THEN [s EXCEPT !.systick_en = FALSE] ELSE s
         [] OTHER             -> s

\* the statement after the one at pc, s being the state before the statement at pc
TickSucc(pc, s) ==
    LET r == s.pwm_ramp
    IN CASE pc = "t_count"    -> IF r.ms_cfg = 0 THEN "t_delay"
                                 ELSE IF r.ms_delay + 1 = r.ms_cfg THEN "t_reset"
                                 ELSE "t_delay"
         [] pc = "t_reset"    -> "t_add"
         [] pc = "t_add"      -> "t_sign"
         [] pc = "t_sign"     -> IF r.pwm_step < 0 THEN "t_clamp_dn" ELSE "t_clamp_up"
         [] pc = "t_clamp_dn" -> "t_zero"
         [] pc = "t_zero"     -> IF r.pwm_current = 0 THEN "t_stop" ELSE "t_match"
         [] pc = "t_stop"     -> "t_test"
         [] pc = "t_clamp_up" -> "t_match"
         [] pc = "t_match"    -> "t_test"
         [] pc = "t_test"     -> "t_halt"
         [] pc = "t_halt"     -> "t_delay"
         [] pc = "t_delay"    -> "t_disable"
         [] OTHER             -> "idle"

\* what the statements of the tick handler leave alone
TickFrame ==
    /\ sev' = "tick"
    /\ UNCHANGED <<PWM_RAMPED, off_value, always_on, disable_with_zero_speed, spindle_invert,
                   spindle_ready, ramp_c0, ramp_steps, since_step, off_run, off_snap>>
    /\ UNCHANGED <<pulseVars, inputVars, dispatchVars, delayVars, nvicVars>>
    /\ UNCHANGED <<ppiVars, setupVars, settingVars, atomicVars, queryVars, outmapVars>>

\* the SysTick interrupt is taken
TickEnter ==
    /\ PWM_RAMPED
    /\ systick_en
    /\ tick_pc = "idle"
    /\ tick_pc' = "t_count"
    /\ ApplySpindle(SpindleState)
    /\ UNCHANGED tick_eq
    /\ TickFrame

\* one statement of the tick handler
TickStep ==
    /\ tick_pc \in TickPcs
    /\ ApplySpindle(TickStmt(tick_pc, SpindleState, tick_eq))
    /\ tick_pc' = TickSucc(tick_pc, SpindleState)
    /\ tick_eq' = IF tick_pc = "t_test" THEN pwm_ramp.pwm_current = pwm_ramp.pwm_target
                  ELSE tick_eq
    /\ TickFrame

\* duty values of the blocks executed while the tick handler can be preempted
PreemptSpeeds == {PwmMin, PwmMax}

TickQuiet == tick_pc = "idle" /\ tick_eq = FALSE

\* the main context and the ISRs of the tick's priority run only outside the tick
\* handler, the stepper ISR and the counting of the PPI timer at any point of it (the
\* step pulse timer is left out: its handler touches neither the ramp nor the spindle)
PreemptNext ==
    \/ tick_pc = "idle" /\ SpindleBoot
    \/ tick_pc = "idle" /\ pulse_start # "stepperPulseStartPPI" /\ laser_ppi_mode(TRUE)
    \/ \E newblk \in BOOLEAN, v \in PreemptSpeeds :
          /\ laser.steps_per_pulse \in {0, 1}
          /\ PpiDriverIsr(newblk, 1, v, 1)
    \/ PpiTimerTick
    \/ tick_pc = "idle" /\ ppi_timeout_isr
    \/ TickEnter
    \/ TickStep

\* ------------------------------------------------------------ lookup-table output mode

\* STEP_OUTMODE == GPIO_MAP and DIRECTION_OUTMODE == GPIO_MAP. A port value is the set
\* of the numbers of its pins that are high.

\* pin numbers <<X, Y, Z>> of three outputs of one port: distinct pins
PinLayouts == {<<0, 1, 2>>, <<2, 1, 0>>, <<1, 4, 6>>}

X_STEP_PIN == {step_pins[1]}
Y_STEP_PIN == {step_pins[2]}
Z_STEP_PIN == {step_pins[3]}

X_DIRECTION_PIN == {dir_pins[1]}
Y_DIRECTION_PIN == {dir_pins[2]}
Z_DIRECTION_PIN == {dir_pins[3]}

\* c_step_outmap[i] is c_step_outmap[i + 1] here
c_step_outmap ==
    << {},
       X_STEP_PIN,
       Y_STEP_PIN,
       X_STEP_PIN \cup Y_STEP_PIN,
       Z_STEP_PIN,
       X_STEP_PIN \cup Z_STEP_PIN,
       Y_STEP_PIN \cup Z_STEP_PIN,
       X_STEP_PIN \cup Y_STEP_PIN \cup Z_STEP_PIN >>

c_dir_outmap ==
    << {},
       X_DIRECTION_PIN,
       Y_DIRECTION_PIN,
       X_DIRECTION_PIN \cup Y_DIRECTION_PIN,
       Z_DIRECTION_PIN,
       X_DIRECTION_PIN \cup Z_DIRECTION_PIN,
       Y_DIRECTION_PIN \cup Z_DIRECTION_PIN,
       X_DIRECTION_PIN \cup Y_DIRECTION_PIN \cup Z_DIRECTION_PIN >>

\* a ^ b on port values
PinXor(a, b) == (a \ b) \cup (b \ a)

\* the table loop that copies the constant table and leaves the invert mask out
OutmapLoop_NoInvert(c, mask) == [i \in AxesValues |-> c[i + 1]]

\* for(i = 0; i < sizeof(outmap); i++) outmap[i] = c[i] ^ c[mask]
OutmapLoop(c, mask) == [i \in AxesValues |-> PinXor(c[i + 1], c[mask + 1])]

\* what the table-mode steps leave alone
OutmapFrame ==
    /\ UNCHANGED <<step_pins, dir_pins>>
    /\ UNCHANGED <<stepper, step_port, dir_port, next_step_outbits, cmd_nb, cmd_armed,
                   dir_written, since_cmd, spaced_ok, edge_balance, width, last_width,
                   stepper_timer_en, idle_cleared, pulse_microseconds,
                   pulse_delay_microseconds>>
    /\ UNCHANGED <<PWM_RAMPED, off_value, always_on, disable_with_zero_speed, spindle_invert,
                   spindle_ready, pwm_ramp, pwmEnabled, spindle_enable_pin,
                   spindle_direction_pin, systick_en, delay, sev, ramp_c0, ramp_steps,
                   since_step, off_run, off_snap>>
    /\ UNCHANGED <<control_invert, control_disable_pullup, control_pins, control_state,
                   probe_result>>
    /\ UNCHANGED <<inputVars, delayVars, nvicVars>>
    /\ UNCHANGED <<ppiVars, setupVars, settingVars, atomicVars, queryVars, tickVars>>

\* settings_changed in the table build, called with settings whose step and direction
\* invert masks are step_mask and dir_mask and whose other values are as before: the
\* tables are rebuilt first, the rest is configured once IOInitDone is set
settings_changed_GPIO_MAP(step_mask, dir_mask) ==
    /\ ~PulseIntPending
    /\ main_pc = "idle"
    /\ step_invert' = step_mask
    /\ dir_invert' = dir_mask
    /\ step_outmap' = OutmapLoop(c_step_outmap, step_mask)
    /\ dir_outmap' = OutmapLoop(c_dir_outmap, dir_mask)
    /\ map_ev' = "settings_changed"
    /\ map_write' = <<>>
    /\ pev' = "settings_changed"
    /\ IF IOInitDone
       THEN LET r == PulseReconfigure(pulse_microseconds, pulse_delay_microseconds)
            IN /\ pulse_handler' = r.handler
               /\ pulse_timer' = r.timer
               /\ pulse_start' = r.start
               /\ pwm_timer' = [pwm_timer EXCEPT !.load = PwmPeriod]
               /\ control_ris' = {}
       ELSE UNCHANGED <<pulse_handler, pulse_timer, pulse_start, pwm_timer, control_ris>>
    /\ OutmapFrame

\* set_step_outputs in the table build: GPIOPinWrite(STEP_PORT, HWSTEP_MASK, step_outmap[...])
set_step_outputs_GPIO_MAP(step_outbits) ==
    /\ main_pc = "idle"
    /\ map_write' = <<step_outbits, step_outmap[step_outbits]>>
    /\ map_ev' = "step"
    /\ UNCHANGED <<step_invert, dir_invert, step_outmap, dir_outmap, pev, pulse_handler,
                   pulse_timer, pulse_start, pwm_timer, control_ris>>
    /\ OutmapFrame

\* set_dir_outputs in the table build
set_dir_outputs_GPIO_MAP(dir_outbits) ==
    /\ main_pc = "idle"
    /\ map_write' = <<dir_outbits, dir_outmap[dir_outbits]>>
    /\ map_ev' = "dir"
    /\ UNCHANGED <<step_invert, dir_invert, step_outmap, dir_outmap, pev, pulse_handler,
                   pulse_timer, pulse_start, pwm_timer, control_ris>>
    /\ OutmapFrame

\* the tables as the static storage is initialised, pins of one of the layouts
OutmapInit ==
    /\ step_pins \in PinLayouts
    /\ dir_pins \in PinLayouts
    /\ step_outmap = [i \in AxesValues |-> {}]
    /\ dir_outmap = [i \in AxesValues |-> {}]
    /\ map_ev = "init"
    /\ map_write = <<>>

\* a build without the tables
OutmapQuiet ==
    /\ step_pins = <<0, 1, 2>>
    /\ dir_pins = <<0, 1, 2>>
    /\ step_outmap = [i \in AxesValues |-> {}]
    /\ dir_outmap = [i \in AxesValues |-> {}]
    /\ map_ev = "init"
    /\ map_write = <<>>

OutmapNext ==
    \/ \E step_mask \in AxesValues, dir_mask \in AxesValues :
          settings_changed_GPIO_MAP(step_mask, dir_mask)
    \/ \E step_outbits \in AxesValues : set_step_outputs_GPIO_MAP(step_outbits)
    \/ \E dir_outbits \in AxesValues : set_dir_outputs_GPIO_MAP(dir_outbits)

\* I/O initialised, no spindle_set_speed call in progress
SetupQuiet == IOInitDone = TRUE /\ set_speed_arg = 0

OtherQuiet == PpiQuiet /\ SetupQuiet /\ SettingQuiet /\ AtomicQuiet /\ QueryQuiet /\ TickQuiet /\ OutmapQuiet

\* ---------------------------------------------------------- specifications

\* state after driver_setup: settings_changed has installed the pulse timer values,
\* stepperGoIdle(true) has cleared the step and direction outputs
PulseInit ==
    /\ pulse_microseconds \in 1..MaxPulse
    /\ pulse_delay_microseconds \in 0..MaxDelay
    /\ step_invert \in StepInvertMasks
    /\ dir_invert \in DirInvertMasks
    /\ stepper = [new_block |-> FALSE, dir_outbits |-> 0, step_outbits |-> 0]
    /\ step_port = set_step_outputs(0)
    /\ dir_port = set_dir_outputs(0)
    /\ next_step_outbits = 0
    /\ LET c == PulseTimerConfig(pulse_microseconds, pulse_delay_microseconds)
       IN /\ pulse_timer = [en |-> FALSE, count |-> c.load, load |-> c.load,
                            match |-> c.match, imask |-> c.imask, ris |-> {}]
          /\ pulse_handler = c.handler
          /\ pulse_start = c.start
    /\ pev = "init"
    /\ cmd_nb = FALSE
    /\ cmd_armed = FALSE
    /\ dir_written = FALSE
    /\ since_cmd = SinceCap
    /\ spaced_ok = TRUE
    /\ edge_balance = 0
    /\ width = 0
    /\ last_width = 0
    /\ stepper_timer_en = TRUE
    /\ idle_cleared = FALSE

\* step commands of one pattern, as issued around a stop
IdleNext ==
    \/ \E newblk \in BOOLEAN : StepperDriverIsr(newblk, 0, 1)
    \/ PulseTimerIsr
    \/ PulseTimerTick
    \/ \E clear_signals \in BOOLEAN : stepperGoIdle(clear_signals)
    \/ stepperWakeUp

PulseNext ==
    \/ \E newblk \in BOOLEAN, dir \in DirPatterns, step \in StepPatterns :
          StepperDriverIsr(newblk, dir, step)
    \/ PulseTimerIsr
    \/ PulseTimerTick

\* one fixed pulse configuration, left at rest
PulseQuiet ==
    /\ PulseInit
    /\ pulse_microseconds = 1
    /\ pulse_delay_microseconds = 0
    /\ step_invert = 0
    /\ dir_invert = 0

PulseSpecInit ==
    PulseInit /\ SpindleQuiet /\ InputQuiet /\ DispatchQuiet /\ DelayQuiet /\ NvicQuiet /\ OtherQuiet

PulseSpec == PulseSpecInit /\ [][PulseNext]_vars

IdleSpec == PulseSpecInit /\ [][IdleNext]_vars

RampSpecInit ==
    SpindleInit /\ PulseQuiet /\ InputQuiet /\ DispatchQuiet /\ DelayQuiet /\ NvicQuiet /\ OtherQuiet

RampSpec == RampSpecInit /\ [][SpindleNext]_vars

DebounceSpecInit ==
    DebounceInit /\ PulseQuiet /\ SpindleQuiet /\ DispatchQuiet /\ DelayQuiet /\ NvicQuiet /\ OtherQuiet

DebounceSpec == DebounceSpecInit /\ [][DebounceNext]_vars

DispatchSpecInit ==
    /\ RawLimitInit /\ DispatchInit
    /\ PulseQuiet /\ SpindleQuiet /\ DelayQuiet /\ NvicQuiet /\ OtherQuiet

DispatchSpec == DispatchSpecInit /\ [][DispatchNext]_vars

DelaySpecInit == DelayInit /\ PulseQuiet /\ InputQuiet /\ DispatchQuiet /\ NvicQuiet /\ OtherQuiet

NvicSpecInit ==
    /\ NvicInit
    /\ PulseQuiet /\ SpindleQuiet /\ InputQuiet /\ DispatchQuiet /\ DelayQuiet /\ OtherQuiet

NvicSpec == NvicSpecInit /\ [][NvicNext]_vars

DelaySpec == DelaySpecInit /\ [][DelayNext]_vars

\* a ramped build (spindle_set_speed returns the value stepperPulseStartPPI stores)
PpiSpecInit ==
    /\ PpiInit
    /\ SpindleInit /\ PWM_RAMPED /\ off_value = 0 /\ ~disable_with_zero_speed
    /\ spindle_invert = [on |-> FALSE, ccw |-> FALSE, pwm |-> FALSE]
    /\ PulseQuiet /\ InputQuiet /\ DispatchQuiet /\ DelayQuiet /\ NvicQuiet
    /\ SetupQuiet /\ SettingQuiet /\ AtomicQuiet /\ QueryQuiet /\ TickQuiet /\ OutmapQuiet

PpiSpec == PpiSpecInit /\ [][PpiNext]_vars

SettingSpecInit ==
    /\ SettingInit
    /\ PulseQuiet /\ SpindleQuiet /\ InputQuiet /\ DispatchQuiet /\ DelayQuiet /\ NvicQuiet
    /\ PpiQuiet /\ SetupQuiet /\ AtomicQuiet /\ QueryQuiet /\ TickQuiet /\ OutmapQuiet

SettingSpec == SettingSpecInit /\ [][SettingNext]_vars

AtomicSpecInit ==
    /\ AtomicInit
    /\ PulseQuiet /\ SpindleQuiet /\ InputQuiet /\ DispatchQuiet /\ DelayQuiet /\ NvicQuiet
    /\ PpiQuiet /\ SetupQuiet /\ SettingQuiet /\ QueryQuiet /\ TickQuiet /\ OutmapQuiet

AtomicSpec == AtomicSpecInit /\ [][AtomicNext]_vars

\* limit and control inputs of a build with software debounce
ControlDebounceNext ==
    \/ \E p \in SwitchedPins : LimitPinChange(p)
    \/ LimitPortIsr
    \/ software_debounce_isr
    \/ DebounceTick
    \/ \E p \in SwitchedControlPins : ControlPinChange(p)
    \/ control_isr

ControlDebounceSpecInit ==
    /\ DebounceInit /\ software_debounce /\ limits_invert = 0 /\ limits_disable_pullup = 0
    /\ ~probe_invert
    /\ DispatchInit
    /\ PulseQuiet /\ SpindleQuiet /\ DelayQuiet /\ NvicQuiet /\ OtherQuiet

ControlDebounceSpec == ControlDebounceSpecInit /\ [][ControlDebounceNext]_vars

SettingsSpecInit ==
    /\ SettingsInit
    /\ LASER_PPI \in BOOLEAN
    /\ laser = [next_pulse |-> 0, steps_per_pulse |-> 0]
    /\ current_pwm = 0
    /\ ppi_timer = [en |-> FALSE, count |-> PpiLoad, load |-> PpiLoad, ris |-> FALSE]
    /\ ppi_steps = -1
    /\ ppi_gap = 0
    /\ SpindleQuiet /\ InputQuiet /\ DispatchQuiet /\ DelayQuiet /\ NvicQuiet
    /\ SettingQuiet /\ AtomicQuiet /\ QueryQuiet /\ TickQuiet /\ OutmapQuiet

SettingsSpec == SettingsSpecInit /\ [][SettingsNext]_vars

LatencySpec == PulseSpecInit /\ [][LatencyNext]_vars

RaceSpecInit ==
    /\ SpindleInit /\ PWM_RAMPED /\ off_value = 0
    /\ spindle_invert = [on |-> FALSE, ccw |-> FALSE, pwm |-> FALSE]
    /\ PulseQuiet /\ InputQuiet /\ DispatchQuiet /\ DelayQuiet /\ NvicQuiet /\ OtherQuiet

\* an enabled SysTick keeps interrupting, and the main context goes on executing the
\* call it is inside of
RaceSpec ==
    RaceSpecInit /\ [][RaceNext]_vars /\ WF_vars(SysTick) /\ WF_vars(SetSpeedStep)

\* both builds and both invert settings, the spindle state set and queried
QuerySpecInit == RampSpecInit

QuerySpec == QuerySpecInit /\ [][QueryNext]_vars

\* LASER_PPI build in PPI mode, the tick handler taken statement by statement
PreemptSpecInit == PpiSpecInit

PreemptSpec == PreemptSpecInit /\ [][PreemptNext]_vars

\* the table build before and after driver_setup, its pins of any of the layouts
OutmapSpecInit ==
    /\ SettingsInit /\ pulse_microseconds = 1 /\ pulse_delay_microseconds = 0
    /\ OutmapInit
    /\ SpindleQuiet /\ InputQuiet /\ DispatchQuiet /\ DelayQuiet /\ NvicQuiet
    /\ PpiQuiet /\ SettingQuiet /\ AtomicQuiet /\ QueryQuiet /\ TickQuiet

OutmapSpec == OutmapSpecInit /\ [][OutmapNext]_vars

\* an enabled SysTick keeps interrupting, and the wait loop, which polls delay.ms many
\* times per tick, sees a zero that recurs
WaitSpec ==
    DelaySpecInit /\ [][WaitNext]_vars /\ WF_vars(SysTick) /\ SF_vars(DelayWait)

\* ------------------------------------------------- pulse generator: claims

DelayedMode == pulse_start = "stepperPulseStartDelayed"

\* C1: a start_pulse command writes the direction outputs if and only if it has
\* new_block true (and then writes the command's direction bits through the invert
\* mask); with new_block false the direction port is unchanged; new_block is false
\* after every start_pulse, in immediate and in delayed mode.
C1_DirectionIffNewBlock ==
    [][pev' = "start" =>
          /\ dir_written' = cmd_nb'
          /\ (cmd_nb' => dir_port' = Xor(stepper'.dir_outbits, dir_invert))
          /\ (~cmd_nb' => dir_port' = dir_port)
          /\ stepper'.new_block = FALSE]_vars

\* a later command of a block has left a non-zero direction pattern alone
C1_Witness ==
    /\ pev = "start"
    /\ ~cmd_nb
    /\ ~dir_written
    /\ stepper.step_outbits # 0
    /\ Xor(dir_port, dir_invert) # 0

C4_EmptyStepNoOp ==
    [][pev' = "start" /\ stepper'.step_outbits = 0 =>
          /\ ~cmd_armed'
          /\ pulse_timer' = pulse_timer
          /\ step_port' = step_port
          /\ next_step_outbits' = next_step_outbits]_vars

\* an empty command that opens a block in delayed mode, a step pattern still buffered
C4_Witness ==
    /\ pev = "start"
    /\ stepper.step_outbits = 0
    /\ cmd_nb
    /\ DelayedMode
    /\ ~cmd_armed
    /\ ~pulse_timer.en
    /\ next_step_outbits # 0

Abs(x) == IF x < 0 THEN -x ELSE x
Max(a, b) == IF a > b THEN a ELSE b

\* |t - c0| and ceil(|t - c0| / SPINDLE_RAMP_STEP_INCR) of the ramp in progress
RampDistance == Abs(pwm_ramp.pwm_target - ramp_c0)
RampStepsNeeded == (RampDistance + SPINDLE_RAMP_STEP_INCR - 1) \div SPINDLE_RAMP_STEP_INCR

\* the duty k ramp steps after set_speed: one increment per step, held at the target
RampExpected(k) ==
    IF pwm_ramp.pwm_target >= ramp_c0
    THEN Min(ramp_c0 + k * SPINDLE_RAMP_STEP_INCR, pwm_ramp.pwm_target)
    ELSE Max(ramp_c0 - k * SPINDLE_RAMP_STEP_INCR, pwm_ramp.pwm_target)

C6_RampState ==
    PWM_RAMPED /\ spindle_ready =>
        /\ pwm_ramp.pwm_current = RampExpected(ramp_steps)
        /\ (pwm_ramp.pwm_current = pwm_ramp.pwm_target <=> ramp_steps >= RampStepsNeeded)
        /\ ramp_steps <= Max(1, RampStepsNeeded)
        /\ (Settled => pwm_ramp.pwm_current = pwm_ramp.pwm_target)
        /\ (ramp_steps > 0 /\ pwm_timer.en =>
                PwmPeriod - pwm_timer.match = pwm_ramp.pwm_current)
        /\ (pwm_timer.en =>
                IF pwm_ramp.pwm_step > 0
                THEN PwmPeriod - pwm_timer.match <= pwm_ramp.pwm_target
                ELSE ramp_steps > 0 => PwmPeriod - pwm_timer.match >= pwm_ramp.pwm_target)

C6_RampCadence ==
    PWM_RAMPED =>
        /\ (sev' = "ramp_step" =>
                IF ramp_steps >= 1 THEN since_step = SPINDLE_RAMP_STEP_TIME - 1
                ELSE since_step <= SPINDLE_RAMP_STEP_TIME - 1)
        /\ (sev' = "tick" /\ pwm_ramp.ms_cfg # 0 => since_step = 0)

\* C6: with no further set_speed call, after k ramp steps pwm_current is c0 moved
\* k increments of SPINDLE_RAMP_STEP_INCR towards the target and held there, so it
\* equals the target exactly from step ceil(|t - c0| / SPINDLE_RAMP_STEP_INCR) on; the
\* duty a ramp step writes to the PWM match register is pwm_current, and the duty in
\* the register of the running timer is never beyond the target in the direction
\* of travel; the ramp halts only at the target; successive ramp steps are
\* SPINDLE_RAMP_STEP_TIME ticks apart.
C6_RampConvergence == []C6_RampState /\ [][C6_RampCadence]_vars

\* a ramp from min_value to max_value has halted at the target after 3 steps
C6_Witness ==
    /\ PWM_RAMPED
    /\ sev = "ramp_step"
    /\ ramp_c0 = PwmMin
    /\ pwm_ramp.pwm_target = PwmMax
    /\ pwm_ramp.pwm_current = PwmMax
    /\ ramp_steps = RampStepsNeeded
    /\ ramp_steps >= 3
    /\ Settled

\* C7: once a set_speed(off_value) has settled, a second set_speed(off_value) never
\* re-enables the PWM output, and when it has settled the enable pin, the PWM timer
\* registers, pwmEnabled, pwm_current and pwm_target are what they were after the
\* first; in both builds.
C7_OffIdempotent ==
    spindle_ready /\ off_run = 2 =>
        /\ ~pwmEnabled
        /\ pwm_timer.en = off_snap[1].pwm_timer.en
        /\ (Settled => <<HwState>> = off_snap)

\* the second ramp-down has halted with the enable pin still asserted
C7_Witness ==
    /\ PWM_RAMPED
    /\ off_run = 2
    /\ sev = "ramp_step"
    /\ Settled
    /\ spindle_enable_pin # spindle_invert.on
    /\ <<HwState>> = off_snap

\* the second set_speed(off_value) has returned in the build without PWM_RAMPED
C7_WitnessDirect ==
    /\ ~PWM_RAMPED
    /\ off_run = 2
    /\ sev = "set_speed"
    /\ ~always_on
    /\ ~pwm_timer.en

\* ----------------------------------------------------- limit inputs: claims

\* the step is a limit port interrupt taken with a limit pin flagged
LimitEdgeHandled == gpio_ris \cap AxisBits # {} /\ gpio_ris' = {}

\* the step is the timeout interrupt of DEBOUNCE_TIMER
DebounceExpiryHandled == debounce_timer.ris /\ ~debounce_timer'.ris

C8_BurstState ==
    software_debounce /\ burst_ok =>
        /\ burst_notes <= 1
        /\ (burst_active /\ since_first < WindowTicks => burst_notes = 0)
        /\ (burst_active /\ burst_notes = 0 =>
                \/ gpio_ris \cap AxisBits # {}
                \/ debounce_timer.en
                \/ debounce_timer.ris)
        /\ (burst_notes = 1 => ~burst_active /\ ~debounce_timer.en)

C8_BurstStep ==
    software_debounce /\ burst_ok /\ DebounceExpiryHandled /\ LimitSignals # 0 =>
        /\ notified'
        /\ notified_state' % 8 = LimitSignals
        /\ burst_notes' = 1

\* C8: with software debounce on, a burst of raw limit edges (one or more) that all
\* come less than the window after the first has no upstream notification before the
\* timer expires, has its edge handler or the expiry still ahead until then, gets one
\* notification from the expiry handler when a limit input is asserted at expiry, and
\* none after it.
C8_BurstNotifiedOnce == []C8_BurstState /\ [][C8_BurstStep]_vars

\* a burst of three or more edges has been notified once
C8_Witness ==
    /\ software_debounce
    /\ burst_ok
    /\ burst_edges = 3
    /\ burst_notes = 1
    /\ lev = "software_debounce_isr"
    /\ notified

\* a single edge held asserted for the window has been notified once
C8_WitnessHeld ==
    /\ software_debounce
    /\ burst_ok
    /\ burst_edges = 1
    /\ burst_notes = 1
    /\ since_first = WindowTicks
    /\ lev = "software_debounce_isr"
    /\ notified

C9_EdgeStep ==
    software_debounce =>
        /\ (LimitEdgeHandled /\ debounce_timer.en => debounce_timer' = debounce_timer)
        /\ (DebounceExpiryHandled /\ burst_ok /\ notified' => since_first = WindowTicks)

\* C9: a raw limit edge handled while the debounce timer is running leaves the timer
\* as it is (not re-armed, not reloaded), and the notification of a burst comes
\* exactly the window after its first edge.
C9_EdgeInWindowIgnored == [][C9_EdgeStep]_vars

C10_HandlerState ==
    software_debounce =>
        /\ limit_handler = "limit_isr_debounced"
        /\ (notified => lev = "software_debounce_isr")

C10_HandlerStep ==
    software_debounce /\ gpio_ris # {} /\ gpio_ris' = {} =>
        /\ ~notified'
        /\ notified_state' = 0
        /\ burst_notes' = burst_notes
        /\ (gpio_ris \cap AxisBits # {} =>
                debounce_timer'.en /\ debounce_timer'.count = DEBOUNCE_LOAD)

\* C10: with software debounce on, the handler of the limit port is
\* limit_isr_debounced; handling a raw edge never calls hal.limit_interrupt_callback,
\* it leaves DEBOUNCE_TIMER running from its load value; every call of the callback
\* is made by software_debounce_isr.
C10_OnlyExpiryNotifies == []C10_HandlerState /\ [][C10_HandlerStep]_vars

\* a raw edge has been handled with the input asserted and nothing was notified
C10_Witness ==
    /\ software_debounce
    /\ lev = "limit_isr_debounced"
    /\ LimitSignals # 0
    /\ debounce_timer.en
    /\ ~notified
    /\ burst_notes = 0

\* a limit input that raised an edge in the burst is asserted
TriggerStillAsserted == \E p \in burst_pins : Bit(LimitSignals, p) = 1

C11_ExpiryStep ==
    software_debounce /\ DebounceExpiryHandled =>
        /\ (notified' => TriggerStillAsserted)
        /\ (notified' => notified_state' = LimitSignals)
        /\ ~debounce_timer'.en

\* C11: the debounce expiry handler notifies upstream only when an input that
\* triggered the debounce is still asserted, passes the limit signals as sampled in
\* the handler, and leaves the one-shot timer stopped.
C11_ExpiryResamples == [][C11_ExpiryStep]_vars

\* ------------------------------------------- control inputs and probe: claims

\* the step is a control port interrupt
ControlEdgeHandled == control_ris # {} /\ control_ris' = {}

\* the step is a limit port interrupt taken with the probe pin flagged
ProbeEdgeHandled == ProbeBit \in gpio_ris /\ gpio_ris' = {}

C12_DispatchStep ==
    /\ (~software_debounce /\ LimitEdgeHandled =>
            /\ lev' = "limit_isr"
            /\ notified'
            /\ notified_state' = Xor(limit_pins, limits_invert))
    /\ (ControlEdgeHandled =>
            control_state' = <<XorControl(control_pins, control_invert)>>)

\* C12: without software debounce every limit port interrupt with a limit pin flagged
\* calls the limit callback from limit_isr with the limit pins XOR the invert mask as
\* they are at handler time, and every control port interrupt calls the control
\* callback with the control pins XOR the control invert mask.
C12_RawDispatch == [][C12_DispatchStep]_vars

C13_ProbeStep == ProbeEdgeHandled => probeState' = probeGetState

C13_QueryState == lev = "probeGetState" => probe_result = <<probeState>>

\* C13: every probe edge interrupt, also one taken together with a limit edge, leaves
\* probeState equal to the pin level after the invert, and a probe query returns
\* probeState.
C13_ProbeCached == [][C13_ProbeStep]_vars /\ []C13_QueryState

\* ------------------------------------------------------- delay requests: claims

\* the step is the return of a driver_delay_ms call
DelayReturns == main_pc \notin {"idle", "fault"} /\ main_pc' = "idle"

\* the last request asked for a callback after a positive delay, and that callback
\* was not the one pending on entry
CallbackRequested ==
    req.ms > 0 /\ req.callback \in Callbacks /\ entry # req.callback

C14_NoWait == req.callback \in Callbacks => main_pc # "wait"

C14_CallbackState ==
    main_pc = "idle" /\ CallbackRequested =>
        /\ \A i \in 1..Len(req_calls) :
              req_calls[i][1] = req.callback => req_calls[i] = <<req.callback, "tick", req.ms>>
        /\ req_ticks >= req.ms =>
              \E i \in 1..Len(req_calls) : req_calls[i] = <<req.callback, "tick", req.ms>>

\* C14: a request with ms > 0 and a callback never enters the wait loop, and its
\* callback is invoked by systick_isr on the ms-th tick after the request, not before
\* and not from the main context.
C14_CallbackAtExpiry == C14_NoWait /\ C14_CallbackState

C15_WaitReturnStep ==
    main_pc = "wait" /\ main_pc' = "idle" => delay.ms = 0 /\ req_ticks >= req.ms

\* C15: a request with ms > 0 and no callback leaves the wait loop only with delay.ms
\* at zero and at least ms ticks after the request, and with ticks delivered fairly
\* every wait is left, in either build and with or without a ramp in progress.
C15_WaitTerminates ==
    [][C15_WaitReturnStep]_vars /\ (main_pc = "wait" ~> main_pc = "idle")

\* a wait has been left while a ramp was in progress
C15_Witness ==
    /\ main_pc = "idle"
    /\ req.ms = MaxMs
    /\ req.callback = "NULL"
    /\ req_ticks = MaxMs
    /\ sev = "delay"
    /\ pwm_ramp.ms_cfg # 0

C16_ReturnStep ==
    DelayReturns =>
        /\ entry # "NULL" =>
              /\ Len(req_calls') >= 1
              /\ req_calls'[1][1] = entry
              /\ req_calls'[1][2] = "main"
        /\ delay'.callback = (IF req.ms > 0 THEN req.callback ELSE "NULL")
        /\ delay'.ms <= (IF req.ms > 0 THEN req.ms ELSE 1)

\* C16: when a driver_delay_ms call returns, a callback that was pending on entry has
\* been called from the main context before anything else, the registered callback is
\* the new request's (none for ms = 0), and the countdown is not above the new
\* request's.
C16_OneRequest == [][C16_ReturnStep]_vars

\* C17: while the main context is outside driver_delay_ms and spindle_set_speed (and
\* no tick handler is running), SysTick is enabled exactly when delay.ms is non-zero
\* or pwm_ramp.ms_cfg is non-zero.
C17_TickEnabledIffPending ==
    main_pc = "idle" => (systick_en <=> (delay.ms # 0 \/ pwm_ramp.ms_cfg # 0))

\* C19: no systick_isr runs between the first read and the last write of delay in a
\* driver_delay_ms call.
C19_UpdatesMasked == ~raced

\* --------------------------------------------------- interrupt priorities: claims

\* C18: PULSE_TIMER has a strictly more urgent priority than STEPPER_TIMER,
\* DEBOUNCE_TIMER and SysTick; none of those three handlers is ever entered on top of
\* the pulse handler, none of them is entered or gets to return while the pulse
\* interrupt is pending, and (witness) the pulse handler is entered on top of the
\* stepper handler.
C18_PulseStep ==
    /\ \A i \in LowerInterrupts :
          nvic_active' = Append(nvic_active, i) => "pulse" \notin nvic_pending
    /\ (Running # <<>> /\ Running[1] \in LowerInterrupts /\ "pulse" \in nvic_pending) =>
          Len(nvic_active') >= Len(nvic_active)

C18_PulseState ==
    /\ \A i \in LowerInterrupts : PriorityLevel("pulse") < PriorityLevel(i)
    /\ \A k \in 1..Len(nvic_active) :
          nvic_active[k] = "pulse" =>
              \A l \in (k + 1)..Len(nvic_active) : nvic_active[l] \notin LowerInterrupts

C18_PulsePriority == []C18_PulseState /\ [][C18_PulseStep]_vars

\* the pulse handler has preempted the stepper handler, itself entered over SysTick
C18_Witness == nvic_active = <<"systick", "stepper", "pulse">>

\* ------------------------------------------------------------ go idle: claims

\* C20: from stepperGoIdle(true) until the next start_pulse no step output is
\* asserted, whatever pulse timer interrupt is serviced in between.
C20_IdleStaysCleared == idle_cleared => StepAsserted = 0

\* ------------------------------------------------------- spindle ramp: claims

Sign(x) == IF x > 0 THEN 1 ELSE IF x < 0 THEN -1 ELSE 0

\* the step is a spindle_set_speed call of the ramped build with a value other than
\* off_value (the off value leaves a target of 0)
RampedSpeedSet == PWM_RAMPED /\ sev' = "set_speed" /\ pwm_ramp'.pwm_target # 0

\* what such a call does to the output and to pwm_current
C21_StartOrKeep ==
    /\ ~pwmEnabled =>
          /\ spindle_enable_pin' = ~spindle_invert.on
          /\ pwm_timer'.en
          /\ pwmEnabled'
          /\ pwm_ramp'.pwm_current = PwmMin
    /\ pwmEnabled =>
          /\ pwm_ramp'.pwm_current = pwm_ramp.pwm_current
          /\ pwmEnabled'
          /\ pwm_timer'.en = pwm_timer.en
          /\ spindle_enable_pin' = spindle_enable_pin

C21_SignStep ==
    RampedSpeedSet =>
        /\ C21_StartOrKeep
        /\ Sign(pwm_ramp'.pwm_step) = Sign(pwm_ramp'.pwm_target - pwm_ramp'.pwm_current)

\* C21 as stated: set_speed(v), v # off_value, from the off state asserts the enable
\* output, enables the PWM timer and seeds pwm_current with min_value; from the on
\* state it leaves pwm_current alone; the step has the sign of target - current.
C21_SeedAndSign == [][C21_SignStep]_vars

C21_DirectionStep ==
    RampedSpeedSet =>
        /\ C21_StartOrKeep
        /\ pwm_ramp'.pwm_step = IF pwm_ramp'.pwm_target < pwm_ramp'.pwm_current
                                THEN -SPINDLE_RAMP_STEP_INCR
                                ELSE SPINDLE_RAMP_STEP_INCR

\* C21 amended: as above, with the step negative when target < current and positive
\* otherwise, also when target = current.
C21_SeedAndDirection == [][C21_DirectionStep]_vars

\* set_speed(min_value) from the off state has returned: target = current, step > 0
C21_Witness ==
    /\ PWM_RAMPED
    /\ sev = "set_speed"
    /\ pwm_ramp.pwm_current = PwmMin
    /\ pwm_ramp.pwm_target = PwmMin
    /\ pwm_ramp.pwm_step = SPINDLE_RAMP_STEP_INCR
    /\ ramp_c0 = PwmMin
    /\ pwmEnabled

\* the step is a spindle_set_speed(off_value) call of the ramped build
RampedOffSet == PWM_RAMPED /\ sev' = "set_speed" /\ pwm_ramp'.pwm_target = 0

\* the step is a tick of a ramp towards off
RampOffTick == PWM_RAMPED /\ sev' \in {"tick", "ramp_step"} /\ pwm_ramp.pwm_target = 0

\* the spindle outputs are as they were
OutputKept ==
    /\ pwmEnabled' = pwmEnabled
    /\ pwm_timer'.en = pwm_timer.en
    /\ spindle_enable_pin' = spindle_enable_pin

C22_OffStep ==
    /\ RampedOffSet =>
          /\ pwm_ramp'.pwm_step < 0
          /\ pwm_ramp'.pwm_current = pwm_ramp.pwm_current
          /\ OutputKept
    /\ RampOffTick =>
          IF sev' = "ramp_step" /\ pwm_ramp'.pwm_current = 0
          THEN /\ ~pwm_timer'.en
               /\ ~pwmEnabled'
               /\ spindle_enable_pin' = IF disable_with_zero_speed THEN spindle_invert.on
                                        ELSE spindle_enable_pin
          ELSE OutputKept

C22_OffState == PWM_RAMPED /\ pwm_ramp.pwm_current > 0 => pwmEnabled /\ pwm_timer.en

SpeedValues == PwmValues \cup {off_value}

C23_DirectStep ==
    ~PWM_RAMPED =>
        /\ \A v \in SpeedValues :
              SpindleSetSpeed(v) =>
                  IF v = off_value
                  THEN /\ ~pwmEnabled'
                       /\ IF always_on
                          THEN pwm_timer'.en /\ pwm_timer'.match = off_value
                          ELSE ~pwm_timer'.en
                  ELSE /\ pwm_timer'.match = v
                       /\ pwm_timer'.en
                       /\ pwmEnabled'
        /\ sev' = "tick" => pwm_timer' = pwm_timer /\ pwmEnabled' = pwmEnabled

\* C23: in the build without PWM_RAMPED, set_speed(v) with v # off_value returns with
\* v in the PWM match register, the PWM timer enabled and pwmEnabled set;
\* set_speed(off_value) returns with pwmEnabled clear and the PWM timer disabled, or,
\* with always_on, enabled with off_value in the match register; ticks do not touch
\* the PWM timer.
C23_DirectDuty == [][C23_DirectStep]_vars

\* set_speed(off_value) has returned with always_on: timer running at the off duty
C23_Witness ==
    /\ ~PWM_RAMPED
    /\ always_on
    /\ sev = "set_speed"
    /\ off_value = 2
    /\ ~pwmEnabled
    /\ pwm_timer.en
    /\ pwm_timer.match = off_value
    /\ off_run = 1

\* set_speed(max_value) has returned while the PWM was running at another duty
C23_WitnessDuty ==
    /\ ~PWM_RAMPED
    /\ sev = "set_speed"
    /\ pwmEnabled
    /\ pwm_timer.en
    /\ pwm_timer.match = PwmMax
    /\ off_run = 0


\* ------------------------------------------------------- laser PPI: claims

\* a laser pulse is being output in PPI mode
LaserOn == spindle_enable_pin # spindle_invert.on

\* C24: in PPI mode with a constant steps_per_pulse of N and a constant non-off PWM
\* value, consecutive laser pulses start exactly N step pulses apart
C24_PulsesNApart ==
    (pulse_start = "stepperPulseStartPPI" /\ ppi_gap # 0)
        => ppi_gap = laser.steps_per_pulse

\* C24, as the code counts: the count is reloaded with N on the step that starts a
\* laser pulse and decremented on the steps that do not, so the starts are N + 1 apart
C24_PulsesNPlusOneApart ==
    (pulse_start = "stepperPulseStartPPI" /\ ppi_gap # 0)
        => ppi_gap = laser.steps_per_pulse + 1

\* C24: the laser output is taken away by ppi_timeout_isr, and by nothing else
C24_EndedByTimeoutStep ==
    /\ (LaserOn /\ ~LaserOn') => (ppi_timer.ris /\ ~ppi_timer'.ris)
    /\ (ppi_timer.ris /\ ~ppi_timer'.ris) => ~LaserOn'

C24_EndedByTimeout == [][C24_EndedByTimeoutStep]_vars

\* a second laser pulse has been started
C24_Reached == pulse_start = "stepperPulseStartPPI" /\ ppi_gap # 0 /\ LaserOn

\* ------------------------------------------------------- driver settings: claims

\* no enabled handler accepted the setting of the last call
NoneAccepts(results) ==
    \A i \in 1..2 : results[i] \in {"none", "Status_Unhandled"}

\* C25: driver_setting returns Status_Unhandled when no enabled handler accepts the
\* setting, copies driver_settings to the EEPROM when the status is Status_OK, and
\* leaves the EEPROM copy as it was for every other status
C25_StoreStep ==
    DriverSetting =>
        /\ NoneAccepts(handler_results') => setting_status' = <<"Status_Unhandled">>
        /\ setting_status' = <<"Status_OK">> => eeprom_driver_area' = driver_settings'
        /\ setting_status' # <<"Status_OK">> => eeprom_driver_area' = eeprom_driver_area

C25_StoreOnlyOnOk == [][C25_StoreStep]_vars

\* both handlers passed the setting on, one left a value in RAM, the EEPROM kept its own
C25_Witness ==
    /\ handler_results = <<"Status_Unhandled", "Status_Unhandled">>
    /\ setting_status = <<"Status_Unhandled">>
    /\ eeprom_driver_area # driver_settings

\* a handler accepted the setting and the block was stored
C25_WitnessStored ==
    /\ handler_results = <<"Status_Unhandled", "Status_OK">>
    /\ setting_status = <<"Status_OK">>
    /\ eeprom_driver_area = driver_settings
    /\ eeprom_driver_area # 0

\* ------------------------------------------------------- ramp termination: claims

\* a ramp is in progress and the main context is outside spindle_set_speed
RampPending == PWM_RAMPED /\ spindle_ready /\ main_pc = "idle" /\ pwm_ramp.ms_cfg # 0

\* the ramp has halted at its target
RampHalted ==
    /\ PWM_RAMPED /\ spindle_ready /\ main_pc = "idle"
    /\ pwm_ramp.ms_cfg = 0
    /\ pwm_ramp.pwm_current = pwm_ramp.pwm_target

\* a further spindle_set_speed call has been made
SpeedCalled == main_pc \in SetSpeedPcs

C26_HoldStep ==
    (RampHalted /\ main_pc' = "idle") =>
        /\ RampHalted'
        /\ pwm_ramp'.pwm_current = pwm_ramp.pwm_current

C26_ChangeStep ==
    (PWM_RAMPED /\ spindle_ready /\ pwm_ramp'.pwm_current # pwm_ramp.pwm_current) =>
        \/ sev' = "ramp_step"
        \/ main_pc = "on_seed" /\ pwm_ramp'.pwm_current = PwmMin

C27_EdgeStep ==
    (software_debounce /\ ControlEdgeHandled) => control_state' = <<>>

\* C27: with software debounce enabled the control port's edge handler does not call
\* hal.control_interrupt_callback
C27_ControlDebounced == [][C27_EdgeStep]_vars

\* ------------------------------------------------------- settings_changed: claims

C28_ModeStep ==
    (IOInitDone /\ pev' = "settings_changed") =>
        IF pulse_delay_microseconds' # 0
        THEN /\ pulse_handler' = "stepper_pulse_isr_delayed"
             /\ pulse_start' = "stepperPulseStartDelayed"
        ELSE /\ pulse_handler' = "stepper_pulse_isr"
             /\ pulse_start' = "stepperPulseStart"

\* C28: every settings_changed call made with I/O initialised leaves the delayed
\* handler registered and the delayed pulse start installed when the pulse delay is
\* non-zero, and the immediate handler and pulse start when it is zero
C28_HandlerMatchesStart == [][C28_ModeStep]_vars

\* the delay has been switched from non-zero to zero after step pulses were output
C28_Witness ==
    /\ IOInitDone
    /\ pev = "settings_changed"
    /\ pulse_delay_microseconds = 0
    /\ pulse_handler = "stepper_pulse_isr"
    /\ pulse_start = "stepperPulseStart"
    /\ "MATCH" \in pulse_timer.imask
    /\ last_width # 0

\* the delay has been switched from zero to non-zero with PPI mode selected
C28_WitnessPpi ==
    /\ IOInitDone
    /\ LASER_PPI
    /\ pev = "settings_changed"
    /\ pulse_delay_microseconds # 0
    /\ pulse_start = "stepperPulseStartDelayed"

\* ------------------------------------------------------- atomic helpers: claims

\* C29: no interrupt handler's update of the word is lost to a helper's
\* read-modify-write (the word is what the updates applied one after the other leave),
\* and bitsClearAtomic and valueSetAtomic return the word as it was just before the
\* helper's store
C29_NoLostUpdate ==
    /\ word = shadow
    /\ atomic_ret # <<>> => atomic_ret = <<before>>

\* bitsClearAtomic has cleared one of two bits an interrupt handler had set, and has
\* returned both
C29_Witness ==
    /\ atomic_pc = "idle"
    /\ atomic_op = [fn |-> "bitsClearAtomic", arg |-> {0}]
    /\ atomic_ret = <<{0, 1}>>
    /\ word = {1}

\* ------------------------------------------------------- late pulse interrupt: claims

\* the delayed handler services the pulse interrupt with the time-out flag pending
TimeoutServiced ==
    /\ pulse_handler = "stepper_pulse_isr_delayed"
    /\ "TIMEOUT" \in PulseIntStatus
    /\ pulse_timer'.ris = pulse_timer.ris \ PulseIntStatus
    /\ pev' \in {"match", "timeout"}

C30_TimeoutStep == TimeoutServiced => Xor(step_port', step_invert) = 0

\* C30: in delayed mode every service of the pulse interrupt made after the time-out
\* event leaves all step outputs cleared, also when the match flag is pending with it
C30_TimeoutClears == [][C30_TimeoutStep]_vars


\* ------------------------------------------------------- ramp and output: claims

\* C31: in a ramped build, with the tick free to run between the statements of
\* spindle_set_speed, whenever the main context is outside the call and the ramp is
\* halted with pwm_current > 0, pwmEnabled is true and the PWM timer is enabled
C31_HaltedOutputOn ==
    (PWM_RAMPED /\ main_pc = "idle" /\ pwm_ramp.ms_cfg = 0 /\ pwm_ramp.pwm_current > 0)
        => (pwmEnabled /\ pwm_timer.en)

\* the duty in the PWM timer's match register
AppliedDuty(t) == PwmPeriod - t.match

\* a ramp step taken with the PWM output enabled before and after it
RampTickWithOutput ==
    /\ PWM_RAMPED
    /\ sev' = "ramp_step"
    /\ pwmEnabled /\ pwm_timer.en
    /\ pwmEnabled' /\ pwm_timer'.en

C32_DutyStep ==
    RampTickWithOutput =>
        Abs(AppliedDuty(pwm_timer') - AppliedDuty(pwm_timer)) <= SPINDLE_RAMP_STEP_INCR

\* C32: while the PWM output is enabled, the duty a ramp tick writes to the hardware
\* differs from the duty applied before it by at most SPINDLE_RAMP_STEP_INCR, also
\* when the tick runs between the statements of a spindle_set_speed call
C32_DutyStepBounded == [][C32_DutyStep]_vars

\* ------------------------------------------------------- delay callbacks: claims

\* invocations of callback f since the current driver_delay_ms call began
CallCount(f) == Cardinality({i \in 1..Len(req_calls) : req_calls[i][1] = f})

\* a callback the current request does not hand in has at most its one outstanding
\* registration to be invoked for
NeverTwice == \A f \in Callbacks : f # req.callback => CallCount(f) <= 1

\* a callback left registered when the call has returned has a countdown running
NeverDropped ==
    (main_pc = "idle" /\ delay.callback \in Callbacks) => (delay.ms > 0 /\ systick_en)

\* C33: with the tick free to run between the statements of driver_delay_ms, every
\* callback registered with a delay is invoked exactly once: it is never invoked twice
\* for one registration, and it is never left registered without a countdown that
\* will invoke it
C33_ExactlyOnce == NeverTwice /\ NeverDropped

\* ------------------------------------------------------- spindle state: claims

\* the spindle enable output is at its active level
EnableAsserted == spindle_enable_pin = ~spindle_invert.on

\* a set_state call that leaves PWM duty to be ramped down keeps the enable output
C34_SetStateStep ==
    (PWM_RAMPED /\ sev' = "set_state" /\ pwm_ramp'.pwm_current > 0 /\ EnableAsserted)
        => EnableAsserted'

\* a ramp step deasserts the enable output only at zero and only when
\* disable_with_zero_speed is set
C34_RampStep ==
    (PWM_RAMPED /\ sev' = "ramp_step" /\ EnableAsserted /\ ~EnableAsserted')
        => (pwm_ramp'.pwm_current = 0 /\ disable_with_zero_speed)

\* C34: in a ramped build a stop through hal.spindle_set_state does not deassert the
\* spindle enable output while pwm_current is still above zero; the output is
\* deasserted when the ramp reaches zero, and then only with disable_with_zero_speed
C34_EnableHeldDuringRampDown == [][C34_SetStateStep /\ C34_RampStep]_vars

\* a spindleGetState call right after a spindleSetState call returns the requested on
\* and ccw, and any spindleGetState call with pwmEnabled set returns on
C35_GetStep ==
    sev' = "get_state" =>
        /\ sev = "set_state_fixed" =>
              /\ state_ret'[1].on = state_req[1].on
              /\ state_ret'[1].ccw = state_req[1].ccw
        /\ pwmEnabled => state_ret'[1].on

\* C35: for every invert mask and every requested state, spindleGetState called after
\* spindleSetState(state) returns the requested on and ccw, and spindleGetState
\* returns on = true whenever pwmEnabled is true
C35_StateRoundTrip == [][C35_GetStep]_vars

\* C36: in a ramped build, whenever the main context is outside spindle_set_speed, no
\* tick handler is running and the ramp is halted (ms_cfg = 0), pwm_current equals
\* pwm_target and spindleGetState returns at_speed = true; at_speed = false is
\* returned only with a ramp in progress
C36_HaltedAtTarget ==
    (PWM_RAMPED /\ main_pc = "idle" /\ tick_pc = "idle") =>
        /\ pwm_ramp.ms_cfg = 0 =>
              /\ pwm_ramp.pwm_current = pwm_ramp.pwm_target
              /\ spindleGetState(SpindleState).at_speed
        /\ ~spindleGetState(SpindleState).at_speed => pwm_ramp.ms_cfg # 0

\* ------------------------------------------------------- lookup tables: claims

\* the pins of the axes whose bit in outbits differs from their bit in mask
DrivenHigh(pins, outbits, mask) ==
    {pins[a + 1] : a \in {x \in AxisBits : Bit(outbits, x) # Bit(mask, x)}}

\* C37: in the table build, after settings_changed with step invert mask m and
\* direction invert mask d, step_outmap[b] for every b in 0..7 is the set of the step
\* pins of the axes whose bit in b differs from their bit in m, dir_outmap[b] likewise
\* with the direction pins and d, and a port write for b puts out that set
C37_TablesInvert ==
    pev = "settings_changed" =>
        /\ \A b \in AxesValues :
              /\ step_outmap[b] = DrivenHigh(step_pins, b, step_invert)
              /\ dir_outmap[b] = DrivenHigh(dir_pins, b, dir_invert)
        /\ map_ev = "step" => map_write[2] = DrivenHigh(step_pins, map_write[1], step_invert)
        /\ map_ev = "dir" => map_write[2] = DrivenHigh(dir_pins, map_write[1], dir_invert)

\* a step pattern written through a table built with a mask that inverts X and Z
C37_Witness ==
    /\ pev = "settings_changed"
    /\ map_ev = "step"
    /\ step_invert = 5
    /\ dir_invert = 2
    /\ map_write = <<3, {step_pins[2], step_pins[3]}>>
    /\ step_pins = <<1, 4, 6>>

=============================================================================
